---- MODULE Spec2Model ----
(***************************************************************************)
(* The OpenSea MCP session client (class OpenSeaMCPClient) as a state      *)
(* machine.  One client instance is shared by the callers in Tasks.  Every *)
(* `await` of the class is a suspension point at which another caller may  *)
(* run; the code between two suspension points is one atomic action.  The  *)
(* remote server is the environment: every reply (transport failure, HTTP  *)
(* error status, headers, body) is drawn from a bounded set.               *)
(*                                                                         *)
(* A step that consumes a reply, or that ends an invocation, leaves the    *)
(* caller in an observation point (pc "hs_ok" or "done") that shows the    *)
(* reply and the outcome.  Leaving it touches no field of the client, so   *)
(* it commutes with every step of the other callers; the model therefore   *)
(* runs it before anything else and loses no interleaving of the client.   *)
(*                                                                         *)
(* The second part of the module is the ENS resolver of the same process   *)
(* (resolveAddressToENS, resolveENSAvatar, resolveENSProfile,              *)
(* clearENSCache, resolveENSNameToAddress and the batch functions          *)
(* resolveMultipleAddresses and resolveMultipleProfiles) with its two      *)
(* module-level caches.  It shares no state with the session client, so    *)
(* each part has its own specification: Spec for the client, SpecENS for   *)
(* the resolver called function by function, SpecBatch for the resolver    *)
(* called through the batch functions, SpecFields for the assembly of a    *)
(* profile from the lookups of one endpoint.                               *)
(*                                                                         *)
(* The third part is the callers: the execute functions of the tools       *)
(* (SpecTools), the address extraction of ENSEnhancedText (SpecText) and   *)
(* the useENSResolver hook of one mounted component (SpecHook), whose      *)
(* callbacks are the closures of the first render.                         *)
(*                                                                         *)
(* SpecSession is Spec with the history variable `hist` switched on: it    *)
(* remembers the handshakes that a disconnect() overtook.  SpecLive is the *)
(* profile resolver under the assumption that every lookup is eventually   *)
(* answered and that a resumed call runs to its end.                       *)
(***************************************************************************)
EXTENDS Integers, Sequences, FiniteSets, TLC

VARIABLES
    configValid,   \* this.configValid, fixed by the constructor
    requestId,     \* this.requestId, the next id to hand out
    sessionId,     \* this.sessionId (NoToken models null)
    initialized,   \* this.initialized, the connected flag
    task,          \* per caller: the operation it runs and where it is suspended
    nSent,         \* how many requests were handed to fetch() so far
    maxSentId,     \* the greatest id among them (0: none)
    lastReq,       \* the request handed to fetch() last
    hist,          \* history of disconnect(): the callers whose handshake was in
                   \* flight when a disconnect() returned (kept under SpecSession)
    envRpcUrl,     \* process.env.ETHEREUM_RPC_URL is set
    ensCache,      \* ensCache: key -> name or null
    ensProfileCache,  \* ensProfileCache: key -> profile record
    call,          \* per caller with a resolver call in progress: the function
                   \* it runs and where
    batch,         \* the resolveMultipleAddresses or resolveMultipleProfiles call
                   \* in progress, if any
    nameSeen,      \* per key: what the first resolveAddressToENS since the last flush returned
    profileSeen,   \* per key: what the first resolveENSProfile since the last flush returned
    flushed,       \* per cache: the keys a flush removed that were not resolved again since
    tool,          \* the execute function of a tool in progress, if any
    view,          \* an ENSEnhancedText component: its text and the addresses found in it
    hook           \* a component's useENSResolver: its state and the callback running

\* The fields of the session client and the history kept about it.
clientVars == <<configValid, requestId, sessionId, initialized, task, nSent, maxSentId,
                lastReq, hist>>

\* The resolver: its environment, its caches, its callers and their history.
ensVars == <<envRpcUrl, ensCache, ensProfileCache, call, batch, nameSeen, profileSeen,
             flushed>>

\* The callers of the client and of the resolver: a tool execution and a
\* rendered text.
uiVars == <<tool, view, hook>>

vars == <<clientVars, ensVars, uiVars>>

\* ------------------------------------------------------------------ bounds

\* No request is sent once the counter has passed this id.
MaxRequestId == 3

\* An event-stream body has at most this many lines.
MaxLines == 2

\* A rendered text is put together from at most this many pieces.
MaxPieces == 4

\* Of every list of endpoints or chains the resolver tries in order, the model
\* keeps the first MaxTried entries.
MaxTried == 2

\* The concurrent callers of the one client instance.
Tasks == {"t1", "t2"}

\* ------------------------------------------------------- environment data

\* null for this.sessionId; also "no Mcp-Session-Id header".
NoToken == "none"

\* Session tokens the server may put in the mcp-session-id response header.
Tokens == {"s1", "s2"}

\* The message of an error object the server sends.
ErrMsg == "bad creds"

\* The tool list a server returns for tools/list.
RemoteTools == <<"remote_tool">>

\* A line of an event-stream body that does not start with "data: ".
NoDataLine == [tag |-> "nodata", id |-> 0, kind |-> ""]

\* A "data: " line whose payload JSON.parse rejects; as a JSON body, invalid JSON.
BadLine == [tag |-> "bad", id |-> 0, kind |-> ""]

\* A well-formed JSON-RPC envelope {id, result} (kind "result") or {id, error}
\* (kind "error").  A result is identified by the id of the envelope carrying it.
Envelope(id, kind) == [tag |-> "env", id |-> id, kind |-> kind]

EnvKinds == {"result", "error"}

\* The id of another request than id.  The client compares the id of an envelope
\* with the id it expects for equality only, so one foreign id stands for all.
OtherId(id) == IF id > 1 THEN id - 1 ELSE id + 1

\* The ids the server may put into the envelopes of the reply to request id.
EchoIds(id) == {id, OtherId(id)}

Envelopes(id) == {Envelope(i, k) : i \in EchoIds(id), k \in EnvKinds}

Lines(id) == {NoDataLine, BadLine} \cup Envelopes(id)

\* Event-stream bodies, split at "\n", of the reply to request id.
Streams(id) == UNION {[1..n -> Lines(id)] : n \in 0..MaxLines}

\* Bodies read with response.json(): one document, valid or not.
Docs(id) == {<<d>> : d \in {BadLine} \cup Envelopes(id)}

\* A reply to fetch().  status "fail": fetch rejects; "http": !response.ok;
\* "ok": a 2xx reply with its content type and body.
Reply(status, ctype, lines) == [status |-> status, ctype |-> ctype, lines |-> lines]

NoReply == Reply("", "", <<>>)

\* The replies to the tools/list or tools/call request id.
Replies(id) ==
    {Reply("fail", "", <<>>), Reply("http", "", <<>>)}
    \cup {Reply("ok", "sse", s) : s \in Streams(id)}
    \cup {Reply("ok", "json", d) : d \in Docs(id)}

\* What reading the body of the 2xx reply to initialize request id gives, by
\* content type: the read rejects (status "fail"), or a body.
BodyReplies(id, ctype) ==
    {Reply("fail", ctype, <<>>)}
    \cup {Reply("ok", ctype, b) : b \in (IF ctype = "sse" THEN Streams(id) ELSE Docs(id))}

\* ------------------------------------------------------ outcomes of a call

NoOut == [status |-> "none", kind |-> "", id |-> 0, msg |-> "", tools |-> <<>>]

\* The promise resolved.  kind: "void", "result" (id: the envelope the result
\* came from), "known" or "remote" (tools: the catalog).
Returned(kind, id, tools) ==
    [status |-> "returned", kind |-> kind, id |-> id, msg |-> "", tools |-> tools]

\* The promise rejected.  kind: "config", "transport", "http", "parse",
\* "protocol" (msg: the error object's message), "nomatch".
Raised(kind, msg) ==
    [status |-> "raised", kind |-> kind, id |-> 0, msg |-> msg, tools |-> <<>>]

\* ------------------------------------------------------------ pure helpers

\* getHeaders() as it would be if it ignored its includeSessionId parameter.
getHeaders_IgnoreFlag(includeSessionId) ==
    IF sessionId # NoToken THEN sessionId ELSE NoToken

\* getHeaders(): the value of the Mcp-Session-Id request header, NoToken when the
\* header is not set.
getHeaders(includeSessionId) ==
    IF sessionId # NoToken /\ includeSessionId THEN sessionId ELSE NoToken

\* The counter as it would be if a request used this.requestId without `++`.
NextRequestId_NoIncrement == requestId

\* this.requestId++ : the counter after handing out requestId.
NextRequestId == requestId + 1

\* parseSSEResponse found no line.
Null == [tag |-> "null", id |-> 0, kind |-> ""]

\* parseSSEResponse as it would be if it took the first well-formed data line,
\* that is, matched by arrival order.
parseSSEResponse_FirstLine(lines, expectedId) ==
    LET idx == {i \in DOMAIN lines : lines[i].tag = "env"} IN
    IF idx = {} THEN Null ELSE lines[CHOOSE i \in idx : \A j \in idx : i <= j]

\* parseSSEResponse(text, expectedId): the first "data: " line that parses and
\* whose id is expectedId; lines without the marker and malformed lines are skipped.
RECURSIVE parseSSEResponse(_, _)
parseSSEResponse(lines, expectedId) ==
    IF lines = <<>> THEN Null
    ELSE LET line == Head(lines) IN
         IF line.tag = "env" /\ line.id = expectedId
         THEN line
         ELSE parseSSEResponse(Tail(lines), expectedId)

\* getKnownTools(): the static fallback catalog.
getKnownTools ==
    <<"search", "fetch", "search_collections", "get_collection", "search_items",
      "get_item", "search_tokens", "get_token", "get_token_swap_quote",
      "get_token_balances">>

\* The body of the try block run for one line of the handshake stream:
\* "return" (initialized, leave connect), "throw", or "next".
HandshakeLineTry(line, expected) ==
    IF line.tag = "bad" THEN "throw"                    \* JSON.parse throws
    ELSE IF line.kind = "result" /\ line.id = expected THEN "return"
    ELSE IF line.kind = "error" THEN "throw"            \* MCP Initialize Error
    ELSE "next"

\* One iteration of the handshake loop as it would be without the inner
\* try/catch: a malformed data line would throw out of the loop.
HandshakeLine_NoCatch(line, expected) ==
    IF line.tag = "nodata" THEN "next" ELSE HandshakeLineTry(line, expected)

\* One iteration of the handshake loop: lines without "data: " are skipped, and
\* whatever the try block throws is caught by `catch (parseError)` and skipped.
HandshakeLine(line, expected) ==
    IF line.tag = "nodata" THEN "next"
    ELSE LET r == HandshakeLineTry(line, expected) IN
         IF r = "throw" THEN "next" ELSE r

\* The handshake loop over the stream: "return" when a line made connect return,
\* "throw" when an iteration threw out of the loop, "exhausted" when the loop
\* ended and connect fell through to `initialized = true`.
RECURSIVE HandshakeStream(_, _)
HandshakeStream(lines, expected) ==
    IF lines = <<>> THEN "exhausted"
    ELSE LET r == HandshakeLine(Head(lines), expected) IN
         IF r = "next" THEN HandshakeStream(Tail(lines), expected) ELSE r

\* What reading the handshake body does, for the reply of the body read (status
\* "fail": response.text() or response.json() rejects): "initialized", or the kind
\* of the error thrown into connect's catch.
HandshakeDecode(reply, expected) ==
    IF reply.status = "fail" THEN "transport"
    ELSE IF reply.ctype = "sse"
    THEN LET r == HandshakeStream(reply.lines, expected) IN
         IF r = "throw" THEN "protocol" ELSE "initialized"
    ELSE LET result == reply.lines[1] IN
         IF result.tag = "bad" THEN "parse"            \* response.json() rejects
         ELSE IF result.kind = "error" THEN "protocol"
         ELSE "initialized"

\* connect's catch block as it would be if it did not clear the token.
ConnectCatch_KeepToken == [sessionId |-> sessionId, initialized |-> FALSE]

\* connect's catch block: the session fields it assigns.
ConnectCatch == [sessionId |-> NoToken, initialized |-> FALSE]

\* disconnect() as it would be if it only lowered the connected flag.
DisconnectState_KeepToken == [sessionId |-> sessionId, initialized |-> FALSE]

\* disconnect(): the session fields it assigns.
DisconnectState == [sessionId |-> NoToken, initialized |-> FALSE]

\* listTools() from the fetch on: what it returns for a reply.
ListOutcome(reply) ==
    IF reply.status = "fail" THEN Returned("known", 0, getKnownTools)
    ELSE IF reply.status = "http" THEN Returned("known", 0, getKnownTools)
    ELSE IF reply.ctype = "sse"
    THEN Returned("known", 0, getKnownTools)   \* response.json() rejects a stream
    ELSE LET result == reply.lines[1] IN
         IF result.tag = "bad" THEN Returned("known", 0, getKnownTools)
         ELSE IF result.kind = "error" THEN Returned("known", 0, getKnownTools)
         ELSE Returned("remote", result.id, RemoteTools)

\* callTool() as it would be if, like connect(), it expected the id
\* `this.requestId - 1` instead of the id it sent.
CallOutcome_LastId(reply, rid) ==
    IF reply.status = "fail" THEN Raised("transport", "")
    ELSE IF reply.status = "http" THEN Raised("http", "")
    ELSE IF reply.ctype = "sse"
    THEN LET data == parseSSEResponse(reply.lines, requestId - 1) IN
         IF data # Null
         THEN IF data.kind = "error"
              THEN Raised("protocol", ErrMsg)
              ELSE Returned("result", data.id, <<>>)
         ELSE Raised("nomatch", "")
    ELSE LET result == reply.lines[1] IN
         IF result.tag = "bad" THEN Raised("parse", "")
         ELSE IF result.kind = "error" THEN Raised("protocol", ErrMsg)
         ELSE Returned("result", result.id, <<>>)

\* callTool() as it would be without its `if (data.error)` / `if (result.error)`
\* checks.
CallOutcome_NoErrorCheck(reply, rid) ==
    IF reply.status = "fail" THEN Raised("transport", "")
    ELSE IF reply.status = "http" THEN Raised("http", "")
    ELSE IF reply.ctype = "sse"
    THEN LET data == parseSSEResponse(reply.lines, rid) IN
         IF data # Null
         THEN Returned("result", data.id, <<>>)
         ELSE Raised("nomatch", "")
    ELSE LET result == reply.lines[1] IN
         IF result.tag = "bad" THEN Raised("parse", "")
         ELSE Returned("result", result.id, <<>>)

\* callTool() from the fetch on: what it returns or throws for a reply to the
\* request with id rid.
CallOutcome(reply, rid) ==
    IF reply.status = "fail" THEN Raised("transport", "")
    ELSE IF reply.status = "http" THEN Raised("http", "")
    ELSE IF reply.ctype = "sse"
    THEN LET data == parseSSEResponse(reply.lines, rid) IN
         IF data # Null
         THEN IF data.kind = "error"
              THEN Raised("protocol", ErrMsg)
              ELSE Returned("result", data.id, <<>>)
         ELSE Raised("nomatch", "")
    ELSE LET result == reply.lines[1] IN
         IF result.tag = "bad" THEN Raised("parse", "")
         ELSE IF result.kind = "error" THEN Raised("protocol", ErrMsg)
         ELSE Returned("result", result.id, <<>>)

\* ------------------------------------------------------------------- state

\* A caller with no operation in progress.
IdleTask ==
    [op |-> "none",        \* connect, listTools, callTool, disconnect
     pc |-> "idle",        \* idle, hs_fetch, hs_body, hs_ok, hs_ret, lt_fetch,
                           \* ct_fetch, done
     rid |-> 0,            \* id of the tools/list or tools/call request it sent
     hid |-> 0,            \* id of the initialize request it sent
     ctype |-> "",         \* content type of the handshake reply being read
     hdrTok |-> NoToken,   \* sessionIdFromHeaders of its handshake
     ninit |-> 0,          \* initialize requests this invocation sent
     nreq |-> 0,           \* tools/list and tools/call requests it sent
     hs |-> "none",        \* its handshake: none, ok, failed
     wasConnected |-> FALSE,  \* this.initialized when the invocation started
     reply |-> NoReply,    \* at an observation point: the reply just consumed
     out |-> NoOut]        \* how the invocation ended

\* A fresh invocation of operation op.
NewTask(op) == [IdleTask EXCEPT !.op = op, !.wasConnected = initialized]

\* The invocation rec ended with outcome out; its caller has yet to resume.
Finish(rec, out) == [rec EXCEPT !.pc = "done", !.out = out]

Request(method, id, hdr) == [method |-> method, id |-> id, hdr |-> hdr]

NoRequest == Request("", 0, NoToken)

\* ----------------------------------------------------------------- actions

Max(a, b) == IF a >= b THEN a ELSE b

\* The callers whose handshake is in flight.
Handshaking == {t \in Tasks : task[t].pc \in {"hs_fetch", "hs_body"}}

\* No history of disconnect() is kept.
NoHistory == [kept |-> FALSE, cut |-> {}]

\* The history of a new client, when one is kept.
NewHistory == [kept |-> TRUE, cut |-> {}]

\* The history with cut as the set of callers a disconnect() cut off, if kept.
Note(cut) == IF hist.kept THEN [hist EXCEPT !.cut = cut] ELSE hist

\* No caller is at an observation point.
Quiet == \A u \in Tasks : task[u].pc \notin {"hs_ok", "done"}

\* fetch() is handed a request; the invocation of t goes on as rec.
Send(t, req, rec) ==
    /\ requestId <= MaxRequestId
    /\ requestId' = NextRequestId
    /\ nSent' = nSent + 1
    /\ maxSentId' = Max(maxSentId, req.id)
    /\ lastReq' = req
    /\ task' = [task EXCEPT ![t] = rec]
    /\ UNCHANGED <<configValid, sessionId, initialized, hist, ensVars, uiVars>>

\* connect() up to its first await, past the `initialized` and `configValid`
\* checks: the initialize request goes out without a session header.
BeginHandshake(t, op) ==
    Send(t, Request("initialize", requestId, getHeaders(FALSE)),
         [NewTask(op) EXCEPT !.pc = "hs_fetch", !.hid = requestId, !.ninit = 1])

\* The fetch of listTools()/callTool(): the request takes the next id and the
\* session header of getHeaders().
SendRequest(t, rec, method, pc) ==
    Send(t, Request(method, requestId, getHeaders(TRUE)),
         [rec EXCEPT !.pc = pc, !.rid = requestId, !.nreq = @ + 1])

\* The invocation of t ends at once, the client untouched.
EndNow(t, op, out) ==
    /\ task' = [task EXCEPT ![t] = Finish(NewTask(op), out)]
    /\ UNCHANGED <<configValid, requestId, sessionId, initialized, nSent, maxSentId,
                   lastReq, hist, ensVars, uiVars>>

\* connect() as it would be without its `configValid` check.
StartConnect_NoConfigCheck(t) ==
    /\ task[t].pc = "idle"
    /\ Quiet
    /\ \/ initialized /\ EndNow(t, "connect", Returned("void", 0, <<>>))
       \/ ~initialized /\ BeginHandshake(t, "connect")

\* connect() as it would be without its `if (this.initialized) return`.
StartConnect_AlwaysHandshake(t) ==
    /\ task[t].pc = "idle"
    /\ Quiet
    /\ \/ ~configValid /\ EndNow(t, "connect", Raised("config", ""))
       \/ configValid /\ BeginHandshake(t, "connect")

\* A caller invokes connect().
StartConnect(t) ==
    /\ task[t].pc = "idle"
    /\ Quiet
    /\ \/ initialized /\ EndNow(t, "connect", Returned("void", 0, <<>>))
       \/ ~initialized /\ ~configValid /\ EndNow(t, "connect", Raised("config", ""))
       \/ ~initialized /\ configValid /\ BeginHandshake(t, "connect")

\* A caller invokes listTools().
StartListTools(t) ==
    /\ task[t].pc = "idle"
    /\ Quiet
    /\ \/ ~configValid /\ EndNow(t, "listTools", Returned("known", 0, getKnownTools))
       \/ configValid /\ ~initialized /\ BeginHandshake(t, "listTools")
       \/ configValid /\ initialized
          /\ SendRequest(t, NewTask("listTools"), "tools/list", "lt_fetch")

\* callTool() as it would be without its `if (!this.initialized) await
\* this.connect()`.
StartCallTool_NoConnect(t) ==
    /\ task[t].pc = "idle"
    /\ Quiet
    /\ \/ ~configValid /\ EndNow(t, "callTool", Raised("config", ""))
       \/ configValid /\ SendRequest(t, NewTask("callTool"), "tools/call", "ct_fetch")

\* A caller invokes callTool(name, arguments).
StartCallTool(t) ==
    /\ task[t].pc = "idle"
    /\ Quiet
    /\ \/ ~configValid /\ EndNow(t, "callTool", Raised("config", ""))
       \/ configValid /\ ~initialized /\ BeginHandshake(t, "callTool")
       \/ configValid /\ initialized
          /\ SendRequest(t, NewTask("callTool"), "tools/call", "ct_fetch")

\* A caller invokes disconnect(); it has no await and ends at once.
Disconnect(t) ==
    /\ task[t].pc = "idle"
    /\ Quiet
    /\ sessionId' = DisconnectState.sessionId
    /\ initialized' = DisconnectState.initialized
    /\ task' = [task EXCEPT ![t] =
                   Finish(NewTask("disconnect"), Returned("void", 0, <<>>))]
    /\ hist' = Note(hist.cut \cup Handshaking)
    /\ UNCHANGED <<configValid, requestId, nSent, maxSentId, lastReq, ensVars, uiVars>>

\* The caller of a settled invocation resumes with its outcome.
Return(t) ==
    /\ task[t].pc = "done"
    /\ task' = [task EXCEPT ![t] = IdleTask]
    /\ UNCHANGED <<configValid, requestId, sessionId, initialized, nSent, maxSentId,
                   lastReq, hist, ensVars, uiVars>>

\* connect() throws inside its try: the catch clears the session and re-throws;
\* a listTools() or callTool() awaiting this connect() rejects with the same error.
ConnectThrow(t, reply, kind, msg) ==
    /\ sessionId' = ConnectCatch.sessionId
    /\ initialized' = ConnectCatch.initialized
    /\ task' = [task EXCEPT ![t] =
                   Finish([@ EXCEPT !.hs = "failed", !.reply = reply], Raised(kind, msg))]
    /\ hist' = Note(hist.cut \ {t})
    /\ UNCHANGED <<configValid, requestId, nSent, maxSentId, lastReq, ensVars, uiVars>>

\* The initialize fetch rejects (status "fail") or answers with an HTTP error
\* status (status "http").
HandshakeRejected(t) ==
    /\ task[t].pc = "hs_fetch"
    /\ Quiet
    /\ \E status \in {"fail", "http"} :
           ConnectThrow(t, Reply(status, "", <<>>),
                        IF status = "fail" THEN "transport" ELSE "http", "")

\* The initialize fetch answers 2xx: connect stores the session header if there
\* is one, and suspends on reading the body.
HandshakeHeaders(t) ==
    /\ task[t].pc = "hs_fetch"
    /\ Quiet
    /\ \E tok \in Tokens \cup {NoToken}, ctype \in {"json", "sse"} :
          /\ sessionId' = IF tok # NoToken THEN tok ELSE sessionId
          /\ task' = [task EXCEPT ![t] = [@ EXCEPT !.pc = "hs_body", !.ctype = ctype,
                                                   !.hdrTok = tok]]
    /\ UNCHANGED <<configValid, requestId, initialized, nSent, maxSentId, lastReq, hist,
                   ensVars, uiVars>>

\* connect() sets the connected flag; a lone connect() resolves, a listTools()
\* or callTool() awaiting it goes on.
ConnectOk(t, reply) ==
    /\ initialized' = TRUE
    /\ task' = [task EXCEPT ![t] =
          IF @.op = "connect"
          THEN Finish([@ EXCEPT !.hs = "ok", !.reply = reply], Returned("void", 0, <<>>))
          ELSE [@ EXCEPT !.pc = "hs_ok", !.hs = "ok", !.reply = reply]]
    /\ hist' = Note(hist.cut \ {t})
    /\ UNCHANGED <<configValid, requestId, sessionId, nSent, maxSentId, lastReq, ensVars, uiVars>>

\* The body of the handshake reply has been read (or reading it failed).
HandshakeBody(t) ==
    /\ task[t].pc = "hs_body"
    /\ Quiet
    /\ \E reply \in BodyReplies(task[t].hid, task[t].ctype) :
          LET r == HandshakeDecode(reply, requestId - 1) IN
          IF r = "initialized"
          THEN ConnectOk(t, reply)
          ELSE ConnectThrow(t, reply, r, IF r = "protocol" THEN ErrMsg ELSE "")

\* The connect() awaited by listTools()/callTool() has resolved; the caller's
\* continuation is pending.
ConnectResolved(t) ==
    /\ task[t].pc = "hs_ok"
    /\ task' = [task EXCEPT ![t] = [@ EXCEPT !.pc = "hs_ret", !.reply = NoReply,
                                             !.ctype = "", !.hdrTok = NoToken]]
    /\ UNCHANGED <<configValid, requestId, sessionId, initialized, nSent, maxSentId,
                   lastReq, hist, ensVars, uiVars>>

\* listTools()/callTool() resumes after `await this.connect()` and sends its
\* request.
AfterConnect(t) ==
    /\ task[t].pc = "hs_ret"
    /\ Quiet
    /\ \/ task[t].op = "listTools" /\ SendRequest(t, task[t], "tools/list", "lt_fetch")
       \/ task[t].op = "callTool" /\ SendRequest(t, task[t], "tools/call", "ct_fetch")

\* The end of a request as it would be if a request that raised tore the session
\* down the way a failed handshake does.
EndOnReply_TearDown(t, reply, out) ==
    /\ task' = [task EXCEPT ![t] = Finish([@ EXCEPT !.reply = reply], out)]
    /\ sessionId' = IF out.status = "raised" THEN NoToken ELSE sessionId
    /\ initialized' = IF out.status = "raised" THEN FALSE ELSE initialized
    /\ UNCHANGED <<configValid, requestId, nSent, maxSentId, lastReq, hist, ensVars,
                   uiVars>>

\* The invocation of t ends on reply with outcome out, the client untouched.
EndOnReply(t, reply, out) ==
    /\ task' = [task EXCEPT ![t] = Finish([@ EXCEPT !.reply = reply], out)]
    /\ UNCHANGED <<configValid, requestId, sessionId, initialized, nSent, maxSentId,
                   lastReq, hist, ensVars, uiVars>>

\* The tools/list fetch settles and listTools() returns.
ListReply(t) ==
    /\ task[t].pc = "lt_fetch"
    /\ Quiet
    /\ \E reply \in Replies(task[t].rid) : EndOnReply(t, reply, ListOutcome(reply))

\* The tools/call fetch settles and callTool() returns or throws.
CallReply(t) ==
    /\ task[t].pc = "ct_fetch"
    /\ Quiet
    /\ \E reply \in Replies(task[t].rid) :
          EndOnReply(t, reply, CallOutcome(reply, task[t].rid))

\* ============================================================ the resolver
\* ------------------------------------------------------- resolver: its data

\* The concurrent callers of the resolver functions.
Callers == {"c1", "c2"}

\* JavaScript null; also the falsy answer (null or "") of a name, avatar or
\* address lookup.
NullValue == "null"

\* The lookup rejected: a transport error of the endpoint.
Throw == "throw"

\* resolveAddressToENS is suspended on the network and has no value yet.
Pending == "pending"

\* An input string of "0x" and 40 hex digits: the address it spells (key) and its
\* letter casing: "lower", "checksum" (the EIP-55 casing of that address) or
\* "wrong" (mixed case that is not the EIP-55 casing).
Addr(key, casing) == [key |-> key, casing |-> casing]

\* No address (the argument of a function that takes none).
NoAddr == Addr("", "")

\* The addresses callers ask for.
Addresses ==
    {Addr("a", "lower"), Addr("a", "checksum"), Addr("a", "wrong")}

\* viem's isAddress(address): the address shape, and, when the string is not all
\* lowercase, the EIP-55 casing.
isAddress(a) == a.casing \in {"lower", "checksum"}

\* address.toLowerCase(): the same address, every letter in lower case.
toLowerCase(a) == Addr(a.key, "lower")

\* The addresses batches are called with: those of single calls and one of
\* another account.
AllAddresses == Addresses \cup {Addr("b", "lower")}

\* The keys a cache can hold when every key is normalised.
LowerKeys == {toLowerCase(a) : a \in AllAddresses}

\* The ENS names endpoints answer with.
Names == {"alice.eth"}

\* What getEnsName settles with.
NameAnswers == {Throw, NullValue} \cup Names

\* What getEnsAvatar settles with.
AvatarAnswers == {Throw, NullValue, "avatar.png"}

\* What getEnsAddress settles with.
AddressAnswers == {Throw, NullValue, "0xA"}

\* An entry of an endpoint list that is undefined.
Undefined == "undefined"

\* process.env.ETHEREUM_RPC_URL
EnvUrl == IF envRpcUrl THEN "env-rpc" ELSE Undefined

\* list.filter(Boolean)
filterBoolean(list) == SelectSeq(list, LAMBDA u : u # Undefined)

\* The first MaxTried entries of list.
Kept(list) == SubSeq(list, 1, IF Len(list) < MaxTried THEN Len(list) ELSE MaxTried)

\* rpcEndpoints of resolveAddressToENS, resolveENSAvatar and resolveENSProfile.
rpcEndpoints == Kept(filterBoolean(<<EnvUrl, "publicnode", "ankr", "public-rpc">>))

\* rpcEndpoints of resolveENSNameToAddress.
addressEndpoints ==
    Kept(filterBoolean(<<EnvUrl, "publicnode", "ankr", "public-rpc", "blockpi">>))

\* The chains of the resolver, mainnet first.
CHAINS == <<"Ethereum", "Arbitrum", "Base", "Linea", "OP Mainnet", "Scroll">>

\* What resolveAddressToENS asks, in order: the mainnet endpoints, then
\* CHAINS.slice(1).
nameTargets == rpcEndpoints \o Kept(Tail(CHAINS))

\* A Map with no entry.
EmptyMap == <<>>

\* map.has(k)
MapHas(m, k) == k \in DOMAIN m

\* map.set(k, v)
MapSet(m, k, v) == [x \in DOMAIN m \cup {k} |-> IF x = k THEN v ELSE m[x]]

\* A profile field that is null.
NullField == <<>>

\* The text record (or avatar) stored under key.
Val(key) == <<key>>

\* The lookups resolveENSProfile makes at one endpoint, in the order of the
\* Promise.allSettled array: getEnsAvatar, then getEnsText for each key.
FieldKeys ==
    <<"avatar", "description", "email", "url", "com.twitter", "twitter", "com.github",
      "github", "com.discord", "org.telegram", "contenthash">>

AllFieldKeys == {FieldKeys[i] : i \in DOMAIN FieldKeys}

Fulfilled(v) == [status |-> "fulfilled", value |-> v]

Rejected == [status |-> "rejected", value |-> NullField]

\* The array Promise.allSettled gives when the lookups in `rejected` reject,
\* those in `valued` find a value and the others find none.
Settled(valued, rejected) ==
    [i \in DOMAIN FieldKeys |->
        IF FieldKeys[i] \in rejected THEN Rejected
        ELSE IF FieldKeys[i] \in valued THEN Fulfilled(Val(FieldKeys[i]))
        ELSE Fulfilled(NullField)]

\* The empty string, which getEnsText gives for a record set to no text.
EmptyText == Val("")

\* The arrays in which every lookup either rejects or finds its value, and the
\* lookup of com.twitter or com.github may also find the empty string.
MixedReplies ==
    UNION {{[i \in DOMAIN FieldKeys |->
                IF FieldKeys[i] \in rejected THEN Rejected
                ELSE IF FieldKeys[i] \in empty THEN Fulfilled(EmptyText)
                ELSE Fulfilled(Val(FieldKeys[i]))] :
              empty \in SUBSET ({"com.twitter", "com.github"} \ rejected)} :
           rejected \in SUBSET AllFieldKeys}

\* The arrays the model lets an endpoint answer with: every lookup rejects; only
\* contenthash finds a value; every lookup finds a value.
FieldReplies ==
    {Settled({}, AllFieldKeys),
     Settled({"contenthash"}, {}),
     Settled(AllFieldKeys, {})}

\* The record fields other than name, loading and error, all null.
NoFields ==
    [avatar |-> NullField, description |-> NullField, email |-> NullField,
     url |-> NullField, twitter |-> NullField, github |-> NullField,
     discord |-> NullField, telegram |-> NullField, contentHash |-> NullField]

\* An ENSProfile.
ProfileRecord(name, f, loading, error) ==
    [name |-> name, avatar |-> f.avatar, description |-> f.description,
     email |-> f.email, url |-> f.url, twitter |-> f.twitter, github |-> f.github,
     discord |-> f.discord, telegram |-> f.telegram, contentHash |-> f.contentHash,
     loading |-> loading, error |-> error]

\* defaultProfile of resolveENSProfile: the pending placeholder.
defaultProfile == ProfileRecord(NullValue, NoFields, TRUE, NullValue)

\* noEnsProfile as it would be without `loading: false`.
noEnsProfile_StillLoading == defaultProfile

\* noEnsProfile of resolveENSProfile.
noEnsProfile == [defaultProfile EXCEPT !.loading = FALSE]

\* errorProfile of resolveENSProfile.
errorProfile == [defaultProfile EXCEPT !.loading = FALSE, !.error = Throw]

\* How a call of the resolver ended.  NoResult: it has not.
NoResult == [status |-> "none", value |-> NullValue]

\* The promise resolved with a string or null.
Resolved(v) == [status |-> "returned", value |-> v]

\* The promise of resolveENSProfile resolved with a record.
ResolvedRecord(p) == [status |-> "returned", value |-> p]

\* The promise rejected with the error of a lookup.
Rejection == [status |-> "raised", value |-> Throw]

\* ---------------------------------------------------- resolver: pure helpers

\* value || null
OrNull(v) == IF v = NullValue \/ v = "" THEN NullValue ELSE v

\* The body of the try block around one lookup: "throw" when the lookup rejects,
\* "found" when `if (ensName)` (or avatar, or address) holds, "next" otherwise.
LookupTry(ans) ==
    IF ans = Throw THEN "throw" ELSE IF OrNull(ans) = NullValue THEN "next" ELSE "found"

\* The mainnet loop of resolveAddressToENS as it would be if its catch blocks
\* threw the error on, as connect()'s catch does.
RpcLookup_Rethrow(ans) ==
    LET r == LookupTry(ans) IN IF r = "throw" THEN "raise" ELSE r

\* The mainnet loop of resolveAddressToENS as it would be if it did not stop at
\* the first name found.
RpcLookup_KeepGoing(ans) == "next"

\* One iteration of the mainnet loop of resolveAddressToENS: `catch { continue }`
\* turns a rejected lookup into "next".
RpcLookup(ans) ==
    LET r == LookupTry(ans) IN IF r = "throw" THEN "next" ELSE r

\* One iteration of the loop over CHAINS.slice(1): `.catch(() => null)` turns a
\* rejected lookup into the answer null.
ChainLookup(ans) == LookupTry(IF ans = Throw THEN NullValue ELSE ans)

\* The iteration of resolveAddressToENS that asks nameTargets[i].
NameLookup(i, ans) ==
    IF i <= Len(rpcEndpoints) THEN RpcLookup(ans) ELSE ChainLookup(ans)

\* One iteration of the loop of resolveENSAvatar.
AvatarLookup(ans) ==
    LET r == LookupTry(ans) IN IF r = "throw" THEN "next" ELSE r

\* One iteration of the loop of resolveENSNameToAddress.
AddressLookup(ans) ==
    LET r == LookupTry(ans) IN IF r = "throw" THEN "next" ELSE r

\* results[i].status === 'fulfilled' ? results[i].value : null
ValueOf(r) == IF r.status = "fulfilled" THEN r.value ELSE NullField

\* The field value is truthy: neither null nor the empty string.
Truthy(v) == v \notin {NullField, EmptyText}

\* a || b for two field values
OrElse(a, b) == IF Truthy(a) THEN a ELSE b

\* The fields as they would be if one rejected lookup voided them all.
ExtractFields_AllOrNothing(results) ==
    IF \E i \in DOMAIN results : results[i].status = "rejected" THEN NoFields
    ELSE [avatar |-> results[1].value, description |-> results[2].value,
          email |-> results[3].value, url |-> results[4].value,
          twitter |-> results[5].value, github |-> results[7].value,
          discord |-> results[9].value, telegram |-> results[10].value,
          contentHash |-> results[11].value]

\* "Extract successful results": the nine fields from the allSettled array.
ExtractFields(results) ==
    [avatar |-> ValueOf(results[1]),
     description |-> ValueOf(results[2]),
     email |-> ValueOf(results[3]),
     url |-> ValueOf(results[4]),
     twitter |-> OrElse(ValueOf(results[5]), ValueOf(results[6])),
     github |-> OrElse(ValueOf(results[7]), ValueOf(results[8])),
     discord |-> ValueOf(results[9]),
     telegram |-> ValueOf(results[10]),
     contentHash |-> ValueOf(results[11])]

\* "If we got at least some data, break out of the loop"
GotSomeData(f) ==
    \/ Truthy(f.avatar) \/ Truthy(f.description) \/ Truthy(f.email)
    \/ Truthy(f.url) \/ Truthy(f.twitter) \/ Truthy(f.github)
    \/ Truthy(f.discord) \/ Truthy(f.telegram)

\* resolveAddressToENS(address) up to its first await: the value it returns at
\* once (not an address: null; a cached key: the entry, or null), or Pending when
\* it goes on to the network.
NameAtOnce(a) ==
    IF ~isAddress(a) THEN NullValue
    ELSE IF MapHas(ensCache, toLowerCase(a)) THEN OrNull(ensCache[toLowerCase(a)])
    ELSE Pending

\* ------------------------------------------------------- resolver: its state

\* A caller with no call in progress.
IdleCall ==
    [op |-> "none",          \* the function called
     pc |-> "idle",          \* idle; name, fields, avatar, address: awaiting that
                             \* lookup; name_ret: resolveENSProfile awaiting a
                             \* resolveAddressToENS that returned at once; done
     addr |-> NoAddr,        \* the address argument
     results |-> <<>>,       \* the array the last Promise.allSettled gave
     ensName |-> NullValue,  \* the name argument, or the name resolved for a profile
     idx |-> 0,              \* position in the list being tried
     asked |-> <<>>,         \* the endpoints and chains asked so far, in order
     allThrew |-> TRUE,      \* every name, avatar or address lookup so far rejected
     hit |-> NullValue,      \* the first truthy answer of a lookup so far
     late |-> FALSE,         \* it began after a call of the same function for its
                             \* key had returned, with no flush since
     overFlush |-> FALSE,    \* clearENSCache() ran while it was in progress
     out |-> NoResult]       \* how the call ended

\* The call of caller c.
CallOf(c) == IF c \in DOMAIN call THEN call[c] ELSE IdleCall

\* The calls in progress once that of c is rec.
PutCall(c, rec) ==
    IF rec = IdleCall
    THEN [d \in DOMAIN call \ {c} |-> call[d]]
    ELSE MapSet(call, c, rec)

\* A call of function op for address a has returned since the last flush.
Returned_Before(op, a) ==
    /\ toLowerCase(a) \in DOMAIN nameSeen
    /\ \/ op = "resolveAddressToENS" /\ nameSeen[toLowerCase(a)] # {}
       \/ op = "resolveENSProfile" /\ profileSeen[toLowerCase(a)] # {}

\* A fresh call of function op on address a.
NewCall(op, a) ==
    [IdleCall EXCEPT !.op = op, !.addr = a, !.late = Returned_Before(op, a)]

\* The call rec settled with out; its caller has yet to resume.
FinishCall(rec, out) == [rec EXCEPT !.pc = "done", !.out = out]

\* The call rec sends the lookup to list[i] and suspends (pc names the loop).
Ask(rec, pc, list, i) ==
    [rec EXCEPT !.pc = pc, !.idx = i, !.asked = Append(@, list[i])]

\* The call rec resumes with the answer ans of its lookup.
Consume(rec, ans) ==
    [rec EXCEPT !.allThrew = @ /\ ans = Throw,
                !.hit = IF @ = NullValue /\ ans # Throw THEN OrNull(ans) ELSE @]

\* A resolveAddressToENS call for address a returned v: remembered when a is an
\* address and the call is the first to return for its key since the last flush.
SeenName(a, v) ==
    IF isAddress(a)
    THEN [nameSeen EXCEPT ![toLowerCase(a)] = IF @ = {} THEN {v} ELSE @]
    ELSE nameSeen

\* A resolveENSProfile call for key k returned record p.
SeenProfile(k, p) == [profileSeen EXCEPT ![k] = IF @ = {} THEN {p} ELSE @]

\* No key awaits its first resolution after a flush.
NoneFlushed == [names |-> {}, profiles |-> {}]

\* A resolution for key k begins.
Unflush(k) == [names |-> flushed.names \ {k}, profiles |-> flushed.profiles \ {k}]

\* The order in which the sub-calls of a batch take the call records.
Slots == <<"c1", "c2">>

\* The address lists a batch is called with: as many addresses as there are
\* call records, or fewer.
BatchInputs ==
    UNION {[1..n -> AllAddresses] : n \in 0..Len(Slots)}

\* No batch in progress.
IdleBatch ==
    [op |-> "none",          \* the batch function called
     pc |-> "idle",          \* idle; map: the sub-calls are being started; wait:
                             \* awaiting Promise.allSettled; done
     addresses |-> <<>>,     \* the argument
     next |-> 1,             \* the address whose sub-call starts next
     out |-> EmptyMap]       \* the map returned

\* The call record of c carries a sub-call of the batch in progress.
InBatch(c) ==
    /\ batch.pc # "idle"
    /\ \E i \in 1..Len(batch.addresses) : Slots[i] = c

\* Every sub-call of the batch has settled.
AllSettled ==
    \A i \in 1..Len(batch.addresses) : CallOf(Slots[i]).pc = "done"

\* errorProfile of resolveMultipleProfiles, set for a rejected sub-call.
failedProfile ==
    [defaultProfile EXCEPT !.loading = FALSE, !.error = "Failed to resolve profile"]

\* The map keyed by the addresses as they were passed.
BatchResults_RawKeys(n) ==
    [a \in {batch.addresses[i] : i \in 1..n} |->
        LET i == CHOOSE j \in 1..n : batch.addresses[j] = a
        IN CallOf(Slots[i]).out.value]

\* results after the forEach of resolveMultipleAddresses or
\* resolveMultipleProfiles over the first n settled sub-calls: a fulfilled one
\* sets its name or profile under the lowercase address, a rejected one sets
\* null or failedProfile.
RECURSIVE BatchResults(_)
BatchResults(n) ==
    IF n = 0 THEN EmptyMap
    ELSE LET result == CallOf(Slots[n]).out
         IN MapSet(BatchResults(n - 1), toLowerCase(batch.addresses[n]),
                   IF result.status = "returned" THEN result.value
                   ELSE IF batch.op = "resolveMultipleAddresses" THEN NullValue
                   ELSE failedProfile)

\* The state of a process in which no resolver function was called yet.
ResolverInit ==
    /\ ensCache = EmptyMap
    /\ ensProfileCache = EmptyMap
    /\ call = EmptyMap
    /\ batch = IdleBatch
    /\ nameSeen = [k \in LowerKeys |-> {}]
    /\ profileSeen = [k \in LowerKeys |-> {}]
    /\ flushed = NoneFlushed

\* ----------------------------------------------------- resolver: its actions

\* No caller of the resolver is at an observation point, and no batch is
\* starting its sub-calls, about to resume or returning.
QuietENS ==
    /\ \A d \in Callers : CallOf(d).pc = "done" => InBatch(d)
    /\ batch.pc \notin {"map", "done"}
    /\ batch.pc = "wait" => ~AllSettled

\* No continuation waits in the microtask queue; only then does the event loop
\* hand a network reply to the program.
NoMicrotask == \A d \in Callers : CallOf(d).pc # "name_ret"

\* No other caller has a call in progress, and no batch.  resolveENSAvatar and
\* resolveENSNameToAddress read and write nothing the other functions use, so
\* their steps commute with every other step; the model runs them alone.
Alone(c) ==
    /\ \A d \in Callers \ {c} : CallOf(d).pc = "idle"
    /\ batch.pc = "idle"

\* No resolveENSAvatar or resolveENSNameToAddress is in progress.
NoLoneCall == \A d \in Callers : CallOf(d).pc \notin {"avatar", "address"}

\* One step of the resolver: the caches, the call of c, the batch and the
\* history after it.
Step(cache, profiles, c, rec, names, records, fl, b) ==
    /\ ensCache' = cache
    /\ ensProfileCache' = profiles
    /\ call' = PutCall(c, rec)
    /\ batch' = b
    /\ nameSeen' = names
    /\ profileSeen' = records
    /\ flushed' = fl
    /\ UNCHANGED <<envRpcUrl, clientVars, uiVars>>

\* One step of the resolver that leaves the batch as it is.
Effect(cache, profiles, c, rec, names, records, fl) ==
    Step(cache, profiles, c, rec, names, records, fl, batch)

\* The call rec of c settles with out, the caches untouched.
Settle(c, rec, out) ==
    Effect(ensCache, ensProfileCache, c, FinishCall(rec, out), nameSeen, profileSeen,
           flushed)

\* The call rec of c asks list[i], the caches untouched.
AskNext(c, rec, pc, list, i) ==
    Effect(ensCache, ensProfileCache, c, Ask(rec, pc, list, i), nameSeen, profileSeen,
           flushed)

\* resolveAddressToENS(a) runs in the call record of c up to its first await,
\* the batch becoming b: it returns at once, or asks the first endpoint.
StartName(c, a, b) ==
    LET k == toLowerCase(a)
        rec == NewCall("resolveAddressToENS", a)
        v == NameAtOnce(a)
    IN IF v # Pending
       THEN Step(ensCache, ensProfileCache, c, FinishCall(rec, Resolved(v)),
                 SeenName(a, v), profileSeen, Unflush(k), b)
       ELSE Step(ensCache, ensProfileCache, c, Ask(rec, "name", nameTargets, 1),
                 nameSeen, profileSeen, Unflush(k), b)

\* A caller invokes resolveAddressToENS(a).
ResolveAddressToENS(c) ==
    /\ CallOf(c).pc = "idle"
    /\ QuietENS
    /\ NoLoneCall
    /\ \E a \in Addresses : StartName(c, a, batch)

\* The batch function op is invoked with a list of addresses; its sub-calls
\* take the first call records, which must be free.
StartBatch(op, addresses) ==
    /\ QuietENS
    /\ NoLoneCall
    /\ \A i \in 1..Len(addresses) : CallOf(Slots[i]).pc = "idle"
    /\ batch' = [IdleBatch EXCEPT !.op = op,
                                 !.pc = IF addresses = <<>> THEN "wait" ELSE "map",
                                 !.addresses = addresses]
    /\ UNCHANGED <<envRpcUrl, ensCache, ensProfileCache, call, nameSeen, profileSeen,
                   flushed, clientVars, uiVars>>

\* resolveMultipleAddresses(addresses) is invoked.
ResolveMultipleAddresses ==
    /\ batch.pc = "idle"
    /\ \E addresses \in BatchInputs : StartBatch("resolveMultipleAddresses", addresses)

\* resolveMultipleProfiles(addresses) is invoked.
ResolveMultipleProfiles ==
    /\ batch.pc = "idle"
    /\ \E addresses \in BatchInputs : StartBatch("resolveMultipleProfiles", addresses)

\* Promise.allSettled resolves once every sub-call has settled, and the batch
\* builds the map it returns.
BatchSettle ==
    /\ batch.pc = "wait"
    /\ AllSettled
    /\ batch' = [batch EXCEPT !.pc = "done", !.out = BatchResults(Len(batch.addresses))]
    /\ call' = [c \in {d \in DOMAIN call : ~InBatch(d)} |-> call[c]]
    /\ UNCHANGED <<envRpcUrl, ensCache, ensProfileCache, nameSeen, profileSeen, flushed,
                   clientVars, uiVars>>

\* The caller of the batch resumes with the map.
BatchReturn ==
    /\ batch.pc = "done"
    /\ batch' = IdleBatch
    /\ UNCHANGED <<envRpcUrl, ensCache, ensProfileCache, call, nameSeen, profileSeen,
                   flushed, clientVars, uiVars>>

\* resolveENSProfile goes on after `await resolveAddressToENS(address)` gave
\* name, the name cache being cache: without a name it stores and returns
\* noEnsProfile, with one it asks the first endpoint for the profile fields.
ProfileAfterName(c, rec, cache, name) ==
    LET k == toLowerCase(rec.addr) IN
    IF name = NullValue
    THEN Effect(cache, MapSet(ensProfileCache, k, noEnsProfile), c,
                FinishCall(rec, ResolvedRecord(noEnsProfile)),
                nameSeen, SeenProfile(k, noEnsProfile), flushed)
    ELSE Effect(cache, ensProfileCache, c,
                Ask([rec EXCEPT !.ensName = name], "fields", rpcEndpoints, 1),
                nameSeen, profileSeen, flushed)

\* The "set loading state" of resolveENSProfile as it would be if it stored nothing.
StorePending_Skip(k) == ensProfileCache

\* The profile cache once resolveENSProfile has set the loading state for key k.
StorePending(k) == MapSet(ensProfileCache, k, defaultProfile)

\* resolveENSProfile(a) runs in the call record of c up to its first await, the
\* batch becoming b: a cached record (pending or not) is returned at once;
\* otherwise the pending placeholder is stored and resolveAddressToENS(a) is
\* awaited.
StartProfile(c, a, b) ==
    LET k == toLowerCase(a)
        rec == NewCall("resolveENSProfile", a)
        v == NameAtOnce(a)
    IN IF MapHas(ensProfileCache, k)
       THEN Step(ensCache, ensProfileCache, c,
                 FinishCall(rec, ResolvedRecord(ensProfileCache[k])),
                 nameSeen, SeenProfile(k, ensProfileCache[k]), Unflush(k), b)
       ELSE IF v # Pending
       THEN Step(ensCache, StorePending(k), c,
                 [rec EXCEPT !.pc = "name_ret", !.ensName = v],
                 nameSeen, profileSeen, Unflush(k), b)
       ELSE Step(ensCache, StorePending(k), c, Ask(rec, "name", nameTargets, 1),
                 nameSeen, profileSeen, Unflush(k), b)

\* A caller invokes resolveENSProfile(a).
ResolveENSProfile(c) ==
    /\ CallOf(c).pc = "idle"
    /\ QuietENS
    /\ NoLoneCall
    /\ \E a \in Addresses : StartProfile(c, a, batch)

\* addresses.map starts the sub-call of the next address, which runs up to its
\* first await; after the last one the batch awaits Promise.allSettled.
BatchCall ==
    /\ batch.pc = "map"
    /\ LET i == batch.next
           b == [batch EXCEPT !.next = i + 1,
                              !.pc = IF i = Len(batch.addresses) THEN "wait" ELSE "map"]
       IN IF batch.op = "resolveMultipleAddresses"
          THEN StartName(Slots[i], batch.addresses[i], b)
          ELSE StartProfile(Slots[i], batch.addresses[i], b)

\* resolveENSProfile resumes after a resolveAddressToENS that returned at once.
ProfileResume(c) ==
    /\ CallOf(c).pc = "name_ret"
    /\ QuietENS
    /\ ProfileAfterName(c, CallOf(c), ensCache, CallOf(c).ensName)

\* resolveAddressToENS stores v under the normalised address and returns it, to
\* its caller or to the resolveENSProfile that awaits it.
NameReturns(c, rec, v) ==
    LET k == toLowerCase(rec.addr)
        cache == MapSet(ensCache, k, v)
    IN IF rec.op = "resolveAddressToENS"
       THEN Effect(cache, ensProfileCache, c, FinishCall(rec, Resolved(v)),
                   SeenName(rec.addr, v), profileSeen, flushed)
       ELSE ProfileAfterName(c, rec, cache, v)

\* An error leaves resolveAddressToENS: its caller sees the rejection; the catch
\* of resolveENSProfile stores and returns errorProfile.
NameRaises(c, rec) ==
    LET k == toLowerCase(rec.addr) IN
    IF rec.op = "resolveAddressToENS"
    THEN Settle(c, rec, Rejection)
    ELSE Effect(ensCache, MapSet(ensProfileCache, k, errorProfile), c,
                FinishCall(rec, ResolvedRecord(errorProfile)),
                nameSeen, SeenProfile(k, errorProfile), flushed)

\* The getEnsName lookup of resolveAddressToENS settles: a name is stored and
\* returned; otherwise the next endpoint or chain is asked; after the last one
\* null is stored and returned.
NameReply(c) ==
    /\ CallOf(c).pc = "name"
    /\ QuietENS
    /\ NoMicrotask
    /\ \E ans \in NameAnswers :
          LET rec == Consume(CallOf(c), ans)
              v == NameLookup(rec.idx, ans)
          IN IF v = "raise" THEN NameRaises(c, rec)
             ELSE IF v = "found" THEN NameReturns(c, rec, ans)
             ELSE IF rec.idx < Len(nameTargets)
             THEN AskNext(c, rec, "name", nameTargets, rec.idx + 1)
             ELSE NameReturns(c, rec, NullValue)

\* The Promise.allSettled of resolveENSProfile settles at one endpoint: with some
\* data, or at the last endpoint, the record is stored and returned.
FieldsSettled(c, results) ==
    LET f == ExtractFields(results)
        got == GotSomeData(f)
        rec == [CallOf(c) EXCEPT !.results = results]
        k == toLowerCase(rec.addr)
        profile == ProfileRecord(rec.ensName, f, FALSE, NullValue)
    IN IF got \/ rec.idx = Len(rpcEndpoints)
       THEN Effect(ensCache, MapSet(ensProfileCache, k, profile), c,
                   FinishCall(rec, ResolvedRecord(profile)),
                   nameSeen, SeenProfile(k, profile), flushed)
       ELSE AskNext(c, rec, "fields", rpcEndpoints, rec.idx + 1)

\* The field lookups of one endpoint settle with one of FieldReplies.
FieldsReply(c) ==
    /\ CallOf(c).pc = "fields"
    /\ QuietENS
    /\ NoMicrotask
    /\ \E results \in FieldReplies : FieldsSettled(c, results)

\* The field lookups of one endpoint settle with one of MixedReplies.
FieldsReplyMixed(c) ==
    /\ CallOf(c).pc = "fields"
    /\ QuietENS
    /\ NoMicrotask
    /\ \E results \in MixedReplies : FieldsSettled(c, results)

\* A lookup of a loop that tries list in order settles with ans, which the
\* loop body takes as v: the first truthy answer is returned, null after the
\* last entry.
FallbackReply(c, list, ans, v) ==
    LET rec == Consume(CallOf(c), ans)
    IN IF v = "raise" THEN Settle(c, rec, Rejection)
       ELSE IF v = "found" THEN Settle(c, rec, Resolved(ans))
       ELSE IF rec.idx < Len(list) THEN AskNext(c, rec, rec.pc, list, rec.idx + 1)
       ELSE Settle(c, rec, Resolved(NullValue))

\* A caller invokes resolveENSAvatar(ensName).
ResolveENSAvatar(c) ==
    /\ CallOf(c).pc = "idle"
    /\ QuietENS
    /\ Alone(c)
    /\ \E n \in Names :
          AskNext(c, [NewCall("resolveENSAvatar", NoAddr) EXCEPT !.ensName = n],
                  "avatar", rpcEndpoints, 1)

\* The getEnsAvatar lookup of resolveENSAvatar settles.
AvatarReply(c) ==
    /\ CallOf(c).pc = "avatar"
    /\ QuietENS
    /\ NoMicrotask
    /\ \E ans \in AvatarAnswers :
          FallbackReply(c, rpcEndpoints, ans, AvatarLookup(ans))

\* A caller invokes resolveENSNameToAddress(ensName).
ResolveENSNameToAddress(c) ==
    /\ CallOf(c).pc = "idle"
    /\ QuietENS
    /\ Alone(c)
    /\ \E n \in Names :
          AskNext(c, [NewCall("resolveENSNameToAddress", NoAddr) EXCEPT !.ensName = n],
                  "address", addressEndpoints, 1)

\* The getEnsAddress lookup of resolveENSNameToAddress settles.
AddressReply(c) ==
    /\ CallOf(c).pc = "address"
    /\ QuietENS
    /\ NoMicrotask
    /\ \E ans \in AddressAnswers :
          FallbackReply(c, addressEndpoints, ans, AddressLookup(ans))

\* A caller invokes clearENSCache(): both maps are cleared.  The keys they held
\* are remembered until the next resolution of each, and no call in progress
\* counts any more as begun after a returned one.
ClearENSCache(c) ==
    /\ CallOf(c).pc = "idle"
    /\ QuietENS
    /\ NoLoneCall
    /\ ensCache' = EmptyMap
    /\ ensProfileCache' = EmptyMap
    /\ call' = [d \in DOMAIN call \cup {c} |->
                   IF d = c
                   THEN FinishCall(NewCall("clearENSCache", NoAddr), Resolved(NullValue))
                   ELSE [call[d] EXCEPT !.late = FALSE, !.overFlush = TRUE]]
    /\ nameSeen' = [k \in LowerKeys |-> {}]
    /\ profileSeen' = [k \in LowerKeys |-> {}]
    /\ flushed' = [names |-> DOMAIN ensCache, profiles |-> DOMAIN ensProfileCache]
    /\ UNCHANGED <<envRpcUrl, batch, clientVars, uiVars>>

\* The caller of a settled resolver call resumes with its outcome.
ReturnENS(c) ==
    /\ CallOf(c).pc = "done"
    /\ ~InBatch(c)
    /\ Effect(ensCache, ensProfileCache, c, IdleCall, nameSeen, profileSeen, flushed)

\* ===================================================== the rendered text
\* ENSEnhancedText finds the addresses in its text.  A text is a sequence of
\* characters.

\* The hexadecimal digits texts are made of.
HexDigits == {"0", "a", "b"}

\* The number of hexadecimal digits ETH_ADDRESS_REGEX asks for after "0x".
AddressDigits == 40

\* What a text is put together from: "0x", a space, and runs of one digit that
\* are one short of an address, as long as one, and one longer.
Pieces ==
    {<<"0", "x">>, <<" ">>}
    \cup {[i \in 1..n |-> d] :
             n \in {AddressDigits - 1, AddressDigits, AddressDigits + 1},
             d \in HexDigits \ {"0"}}

\* ETH_ADDRESS_REGEX matches at position i of text: "0x" and forty characters
\* of [a-fA-F0-9].
MatchAt(text, i) ==
    /\ i + 1 + AddressDigits <= Len(text)
    /\ text[i] = "0"
    /\ text[i + 1] = "x"
    /\ \A j \in 2..(AddressDigits + 1) : text[i + j] \in HexDigits

\* text.match(ETH_ADDRESS_REGEX) from position i on: with the g flag, every
\* match in order, each the leftmost one behind the end of the match before.
RECURSIVE match(_, _)
match(text, i) ==
    LET starts == {j \in i..Len(text) : MatchAt(text, j)}
    IN IF starts = {} THEN <<>>
       ELSE LET j == CHOOSE j \in starts : \A k \in starts : j <= k
            IN <<SubSeq(text, j, j + 1 + AddressDigits)>>
               \o match(text, j + 2 + AddressDigits)

\* Array.from(new Set(matches)): the first occurrence of every match, in order.
Unique(matches) ==
    LET first == {i \in DOMAIN matches : \A j \in 1..(i - 1) : matches[j] # matches[i]}
    IN [r \in 1..Cardinality(first) |->
           matches[CHOOSE i \in first : Cardinality({j \in first : j <= i}) = r]]

\* No text rendered yet.
IdleView ==
    [text |-> <<>>,        \* children
     pieces |-> 0,         \* the pieces it was put together from
     addresses |-> <<>>]   \* the addresses found in it

\* The component is rendered with a text that grew by one piece, and the memo
\* recomputes the addresses.
Render ==
    /\ view.pieces < MaxPieces
    /\ \E piece \in Pieces :
          LET children == view.text \o piece
          IN view' = [text |-> children, pieces |-> view.pieces + 1,
                      addresses |-> Unique(match(children, 1))]
    /\ UNCHANGED <<clientVars, ensVars, tool, hook>>

\* ================================================================ the tools
\* The execute functions of the OpenSea tools and of the ENS tools.  The client
\* and the resolver they await are the environment here: each awaited call
\* settles with one of the outcomes the function can have.

\* The texts a server may send as the body of an HTTP error reply or as the
\* message of an error object.
ErrorTexts == {ErrMsg, "quota exceeded"}

\* The OpenSea tools: the name passed to callTool and the opening of the
\* message of the catch block.
OpenSeaTools ==
    {[tool |-> "openSeaSearch", name |-> "search", failed |-> "Failed to search OpenSea"],
     [tool |-> "fetchEntity", name |-> "fetch", failed |-> "Failed to fetch entity"],
     [tool |-> "searchCollections", name |-> "search_collections",
      failed |-> "Failed to search collections"],
     [tool |-> "getCollection", name |-> "get_collection",
      failed |-> "Failed to get collection"],
     [tool |-> "searchItems", name |-> "search_items", failed |-> "Failed to search items"],
     [tool |-> "getItem", name |-> "get_item", failed |-> "Failed to get item"],
     [tool |-> "searchTokens", name |-> "search_tokens",
      failed |-> "Failed to search tokens"],
     [tool |-> "getToken", name |-> "get_token", failed |-> "Failed to get token"],
     [tool |-> "getTokenSwapQuote", name |-> "get_token_swap_quote",
      failed |-> "Failed to get swap quote"],
     [tool |-> "getTokenBalances", name |-> "get_token_balances",
      failed |-> "Failed to get token balances"]}

\* The ENS tools.
ENSTools == {"resolveENSProfileTool", "batchResolveENS"}

\* What the input of an ENS tool is: "address" (the address shape, accepted by
\* isAddress), "badaddress" (the address shape, rejected by isAddress), "name"
\* (holds a dot), "other".
InputKinds == {"address", "badaddress", "name", "other"}

\* The payload a tool returns.  failed: `error: true` of an OpenSea tool or
\* `success: false` of an ENS tool; message: the parts of its message or error
\* text; result: the envelope a response came from (0: none).
Payload(failed, message, result) ==
    [failed |-> failed, message |-> message, result |-> result]

\* How an execute function ended.
NoDelivery == [status |-> "none", value |-> Payload(FALSE, <<>>, 0)]

Delivered(payload) == [status |-> "returned", value |-> payload]

\* error.message of the error err that callTool throws, text being what the
\* server sent along.
ErrorMessage(err, text) ==
    IF err.kind = "http" THEN <<"HTTP ", text>>
    ELSE IF err.kind = "protocol" THEN <<"MCP Tool Error: ", text>>
    ELSE IF err.kind = "nomatch" THEN <<"No valid response found in SSE stream">>
    ELSE IF err.kind = "parse" THEN <<"Unexpected token">>
    ELSE <<"fetch failed">>

\* The message of the error getSafeOpenSeaMCPClient throws.
Unavailable == <<"OpenSea MCP service is currently unavailable">>

\* The catch block of an OpenSea tool as it would be if it threw the error on.
Caught_Rethrow(failed, message) ==
    [status |-> "raised", value |-> Payload(TRUE, message, 0)]

\* The catch block of an OpenSea tool: the payload it returns for an error with
\* that message.
Caught(failed, message) == Delivered(Payload(TRUE, <<failed, ": ">> \o message, 0))

\* No tool is executing.
IdleTool ==
    [pc |-> "idle",       \* idle; client: awaiting getSafeOpenSeaMCPClient; call:
                          \* awaiting callTool; resolve: awaiting the resolver; done
     tool |-> "none",     \* the tool
     failed |-> "",       \* the opening of its failure message
     input |-> "",        \* the kind of input of an ENS tool
     err |-> NoOut,       \* the error its catch block caught, if any
     text |-> "",         \* the text the server sent with the failed reply
     out |-> NoDelivery]  \* what execute returned or threw

\* One step of a tool.
ToolStep(rec) ==
    /\ tool' = rec
    /\ UNCHANGED <<clientVars, ensVars, view, hook>>

\* execute of an OpenSea tool is invoked and awaits getSafeOpenSeaMCPClient().
ExecuteOpenSeaTool ==
    /\ tool.pc = "idle"
    /\ \E tl \in OpenSeaTools :
          ToolStep([IdleTool EXCEPT !.pc = "client", !.tool = tl.tool,
                                    !.failed = tl.failed])

\* client.connect() settles: when it resolves the tool awaits callTool; when it
\* throws, getSafeOpenSeaMCPClient throws its own error, which the catch block
\* of the tool turns into the payload.
ClientSettled ==
    /\ tool.pc = "client"
    /\ \/ configValid /\ ToolStep([tool EXCEPT !.pc = "call"])
       \/ \E kind \in IF configValid THEN {"transport", "http", "parse", "protocol"}
                       ELSE {"config"},
             text \in ErrorTexts :
             ToolStep([tool EXCEPT !.pc = "done", !.err = Raised(kind, ""),
                                   !.text = text,
                                   !.out = Caught(tool.failed, Unavailable)])

\* callTool settles on a reply: the tool returns the response, or its catch
\* block turns the error into the payload.
CallSettled ==
    /\ tool.pc = "call"
    /\ \E reply \in Replies(requestId), text \in ErrorTexts :
          LET out == CallOutcome(reply, requestId)
          IN IF out.status = "raised"
             THEN ToolStep([tool EXCEPT !.pc = "done", !.err = out, !.text = text,
                                        !.out = Caught(tool.failed,
                                                       ErrorMessage(out, text))])
             ELSE ToolStep([tool EXCEPT !.pc = "done",
                                        !.out = Delivered(Payload(FALSE, <<>>, out.id))])

\* execute of an ENS tool is invoked with an input of some kind: it returns at
\* once, or awaits the resolver.  resolveENSProfileTool refuses an address
\* isAddress rejects and an input of no kind; batchResolveENS notes an input of
\* no kind as a failed entry and returns its summary.
ExecuteENSTool ==
    /\ tool.pc = "idle"
    /\ \E tl \in ENSTools, kind \in InputKinds :
          LET rec == [IdleTool EXCEPT !.tool = tl, !.input = kind]
          IN IF kind = "other"
             THEN ToolStep([rec EXCEPT !.pc = "done",
                               !.out = Delivered(Payload(tl = "resolveENSProfileTool",
                                           <<"must be ENS name or address">>, 0))])
             ELSE IF kind = "badaddress" /\ tl = "resolveENSProfileTool"
             THEN ToolStep([rec EXCEPT !.pc = "done",
                               !.out = Delivered(Payload(TRUE,
                                           <<"Invalid Ethereum address format">>, 0))])
             ELSE ToolStep([rec EXCEPT !.pc = "resolve"])

\* The resolver calls an ENS tool awaits have returned (they do not throw):
\* resolveENSNameToAddress found an address or not, resolveENSProfile gave a
\* record.  Only resolveENSProfileTool fails for a name without address.
ResolverSettled ==
    /\ tool.pc = "resolve"
    /\ \E found \in BOOLEAN :
          /\ tool.input # "name" => found
          /\ ToolStep([tool EXCEPT !.pc = "done",
                 !.out = Delivered(
                     IF found THEN Payload(FALSE, <<>>, 0)
                     ELSE Payload(tool.tool = "resolveENSProfileTool",
                                  IF tool.tool = "resolveENSProfileTool"
                                  THEN <<"The ENS name could not be resolved">>
                                  ELSE <<"ENS name not found">>, 0))])

\* The caller of the tool resumes with the payload.
ToolReturn ==
    /\ tool.pc = "done"
    /\ ToolStep(IdleTool)

\* ================================================================ the hook
\* useENSResolver: the state `resolutions` and `profiles` of a component and the
\* four callbacks that fill it.  A callback runs up to its await in one step; the
\* resolver function it awaits starts in the step after, before anything else
\* runs, and the callback resumes when that function has settled.  One callback
\* runs at a time.

\* An entry of `resolutions`.
Resolution(ensName, loading, error) ==
    [ensName |-> ensName, loading |-> loading, error |-> error]

\* The entry set while the name is awaited.
LoadingResolution == Resolution(NullValue, TRUE, NullValue)

\* The dependencies of the four useCallback calls: the array [].
CallbackDeps == {}

\* useCallback(fn, deps) at a render: the memoised callback unless a dependency
\* changed, and then the callback of this render.  A callback stands for the
\* state its closure holds.
useCallback(memo, latest, deps) == IF deps = {} THEN memo ELSE latest

\* {...prev, ...updated}
Merge(prev, updated) ==
    [k \in DOMAIN prev \cup DOMAIN updated |->
        IF k \in DOMAIN updated THEN updated[k] ELSE prev[k]]

\* The hook of a component that has just mounted.
IdleHook ==
    [resolutions |-> EmptyMap,   \* useState({})
     profiles |-> EmptyMap,      \* useState({})
     closure |-> [resolutions |-> EmptyMap, profiles |-> EmptyMap],
                                 \* `resolutions` and `profiles` as the callbacks see them
     pc |-> "idle",              \* idle; call: a callback has reached its await
     op |-> "none",              \* the callback running
     addresses |-> <<>>]         \* what it passes to the resolver

\* The hook h after setResolutions and setProfiles: the component renders again
\* with the new state and useCallback gives the callbacks of that render.
SetState(h, resolutions, profiles) ==
    [h EXCEPT !.resolutions = resolutions,
              !.profiles = profiles,
              !.closure = useCallback(@, [resolutions |-> resolutions,
                                          profiles |-> profiles], CallbackDeps)]

\* addresses.filter(addr => addr && !state[addr.toLowerCase()]) for the state a
\* callback sees.
ToResolve(addresses, state) ==
    SelectSeq(addresses, LAMBDA addr : ~MapHas(state, toLowerCase(addr)))

\* "Set loading state" for every address of the list.
SetLoading(resolutions, addresses) ==
    Merge(resolutions,
          [k \in {toLowerCase(addresses[i]) : i \in DOMAIN addresses} |-> LoadingResolution])

\* One step of the hook.
HookStep(h) ==
    /\ hook' = h
    /\ UNCHANGED <<clientVars, ensVars, tool, view>>

\* The callback op has reached its await, about to pass addresses to the
\* resolver; the hook's state is now h.
Awaiting(h, op, addresses) ==
    HookStep([h EXCEPT !.pc = "call", !.op = op, !.addresses = addresses])

\* resolveAddress(address) is invoked: it returns at once for an address it sees
\* in `resolutions`; otherwise it sets the loading state and awaits
\* resolveAddressToENS(address).
HookResolveAddress ==
    /\ hook.pc = "idle"
    /\ \E address \in Addresses :
          IF MapHas(hook.closure.resolutions, toLowerCase(address))
          THEN HookStep(hook)
          ELSE Awaiting(SetState(hook, SetLoading(hook.resolutions, <<address>>),
                                 hook.profiles),
                        "resolveAddress", <<address>>)

\* resolveProfile(address) is invoked: it returns at once for an address it sees
\* in `profiles`; otherwise it awaits resolveENSProfile(address).
HookResolveProfile ==
    /\ hook.pc = "idle"
    /\ \E address \in Addresses :
          IF MapHas(hook.closure.profiles, toLowerCase(address))
          THEN HookStep(hook)
          ELSE Awaiting(hook, "resolveProfile", <<address>>)

\* resolveMultiple(addresses) is invoked: it sets the loading state for the
\* addresses it does not see in `resolutions` and awaits
\* resolveMultipleAddresses for them; with none left it returns at once.
HookResolveMultiple ==
    /\ hook.pc = "idle"
    /\ \E addresses \in BatchInputs :
          LET addressesToResolve == ToResolve(addresses, hook.closure.resolutions)
          IN IF addressesToResolve = <<>>
             THEN HookStep(hook)
             ELSE Awaiting(SetState(hook, SetLoading(hook.resolutions, addressesToResolve),
                                    hook.profiles),
                           "resolveMultiple", addressesToResolve)

\* resolveMultipleProfiles(addresses) of the hook is invoked: it awaits the
\* resolver's resolveMultipleProfiles for the addresses it does not see in
\* `profiles`; with none left it returns at once.
HookResolveMultipleProfiles ==
    /\ hook.pc = "idle"
    /\ \E addresses \in BatchInputs :
          LET addressesToResolve == ToResolve(addresses, hook.closure.profiles)
          IN IF addressesToResolve = <<>>
             THEN HookStep(hook)
             ELSE Awaiting(hook, "resolveMultipleProfiles", addressesToResolve)

\* The resolver function the callback awaits runs up to its first await.
HookCallsResolver ==
    /\ hook.pc = "call"
    /\ CallOf(Slots[1]).pc = "idle"
    /\ batch.pc = "idle"
    /\ \/ hook.op = "resolveAddress" /\ StartName(Slots[1], hook.addresses[1], batch)
       \/ hook.op = "resolveProfile" /\ StartProfile(Slots[1], hook.addresses[1], batch)
       \/ hook.op = "resolveMultiple"
          /\ StartBatch("resolveMultipleAddresses", hook.addresses)
       \/ hook.op = "resolveMultipleProfiles"
          /\ StartBatch("resolveMultipleProfiles", hook.addresses)

\* The entries of `resolutions` for the names in the map got.
NameEntries(got) == [k \in DOMAIN got |-> Resolution(got[k], FALSE, NullValue)]

\* The entries of `resolutions` for the profiles in the map got.
ProfileEntries(got) ==
    [k \in DOMAIN got |-> Resolution(got[k].name, got[k].loading, got[k].error)]

\* The hook after the callback running resumed with the map got (for one
\* address: its one entry), or with a rejection.
AfterAwait(got, rejected) ==
    LET keys == {toLowerCase(hook.addresses[i]) : i \in DOMAIN hook.addresses}
    IN IF hook.op \in {"resolveAddress", "resolveMultiple"}
       THEN SetState(hook,
                     Merge(hook.resolutions,
                           IF rejected
                           THEN [k \in keys |-> Resolution(NullValue, FALSE, Throw)]
                           ELSE NameEntries(got)),
                     hook.profiles)
       ELSE IF rejected
       THEN SetState(hook, hook.resolutions,
                     Merge(hook.profiles, [k \in keys |-> errorProfile]))
       ELSE SetState(hook, Merge(hook.resolutions, ProfileEntries(got)),
                     Merge(hook.profiles, got))

\* The resolver function has settled and the callback resumes behind its await:
\* it stores what it got in the hook's state and ends.
HookResume ==
    /\ hook.pc = "call"
    /\ \/ /\ hook.op \in {"resolveAddress", "resolveProfile"}
          /\ CallOf(Slots[1]).pc = "done"
          /\ \E out \in {CallOf(Slots[1]).out} :
                hook' = [AfterAwait([k \in {toLowerCase(hook.addresses[1])} |-> out.value],
                                    out.status = "raised")
                           EXCEPT !.pc = "idle", !.op = "none", !.addresses = <<>>]
          /\ call' = PutCall(Slots[1], IdleCall)
          /\ UNCHANGED batch
       \/ /\ hook.op \in {"resolveMultiple", "resolveMultipleProfiles"}
          /\ batch.pc = "done"
          /\ hook' = [AfterAwait(batch.out, FALSE)
                         EXCEPT !.pc = "idle", !.op = "none", !.addresses = <<>>]
          /\ batch' = IdleBatch
          /\ UNCHANGED call
    /\ UNCHANGED <<envRpcUrl, ensCache, ensProfileCache, nameSeen, profileSeen, flushed,
                   clientVars, tool, view>>

\* --------------------------------------------------------- specifications

\* The fields of a new client, the constructor's configValid apart.
ClientInit ==
    /\ requestId = 1
    /\ sessionId = NoToken
    /\ initialized = FALSE
    /\ task = [t \in Tasks |-> IdleTask]
    /\ nSent = 0
    /\ maxSentId = 0
    /\ lastReq = NoRequest
    /\ tool = IdleTool
    /\ view = IdleView
    /\ hook = IdleHook

\* A new client, with or without credential, in a process that has not used the
\* resolver (whose environment the client does not read).
Init ==
    /\ configValid \in BOOLEAN
    /\ ClientInit
    /\ hist = NoHistory
    /\ envRpcUrl = FALSE
    /\ ResolverInit

Next ==
    \E t \in Tasks :
        \/ StartConnect(t)
        \/ StartListTools(t)
        \/ StartCallTool(t)
        \/ Disconnect(t)
        \/ Return(t)
        \/ HandshakeRejected(t)
        \/ HandshakeHeaders(t)
        \/ HandshakeBody(t)
        \/ ConnectResolved(t)
        \/ AfterConnect(t)
        \/ ListReply(t)
        \/ CallReply(t)

Spec == Init /\ [][Next]_vars

\* A new client whose history of disconnect() is kept.
InitSession ==
    /\ configValid \in BOOLEAN
    /\ ClientInit
    /\ hist = NewHistory
    /\ envRpcUrl = FALSE
    /\ ResolverInit

\* The client with the history of disconnect().
SpecSession == InitSession /\ [][Next]_vars

\* A process that has not used the client (whose fields the resolver does not
\* read), with or without ETHEREUM_RPC_URL.
InitENS ==
    /\ configValid = FALSE
    /\ ClientInit
    /\ hist = NoHistory
    /\ envRpcUrl \in BOOLEAN
    /\ ResolverInit

NextENS ==
    \/ \E c \in Callers :
          \/ ResolveAddressToENS(c)
          \/ ResolveENSProfile(c)
          \/ ResolveENSAvatar(c)
          \/ ResolveENSNameToAddress(c)
          \/ ClearENSCache(c)
          \/ ReturnENS(c)
          \/ ProfileResume(c)
          \/ NameReply(c)
          \/ FieldsReply(c)
          \/ AvatarReply(c)
          \/ AddressReply(c)

SpecENS == InitENS /\ [][NextENS]_vars

\* The resolver called through its batch functions.
NextBatch ==
    \/ \E c \in Callers :
          \/ ClearENSCache(c)
          \/ ProfileResume(c)
          \/ NameReply(c)
          \/ FieldsReply(c)
    \/ ResolveMultipleAddresses
    \/ ResolveMultipleProfiles
    \/ BatchCall
    \/ BatchSettle
    \/ BatchReturn

SpecBatch == InitENS /\ [][NextBatch]_vars

\* One caller resolving profiles, the field lookups of an endpoint settling in
\* every mix of rejections and values.
NextFields ==
    \E c \in {Slots[1]} :
        \/ ResolveENSProfile(c)
        \/ NameReply(c)
        \/ FieldsReplyMixed(c)
        \/ ReturnENS(c)

SpecFields == InitENS /\ [][NextFields]_vars

\* Two callers resolving profiles and flushing the caches.
NextLive ==
    \E c \in Callers :
        \/ ResolveENSProfile(c)
        \/ ClearENSCache(c)
        \/ ReturnENS(c)
        \/ ProfileResume(c)
        \/ NameReply(c)
        \/ FieldsReply(c)

\* A lookup settles and the call that awaited it goes on.
Resumes ==
    \E c \in Callers : NameReply(c) \/ FieldsReply(c) \/ ProfileResume(c)

\* A settled call returns to its caller.
Returns == \E c \in Callers : ReturnENS(c)

\* Every network lookup returns or fails, and the event loop runs what is ready:
\* a settled call returns to its caller, and while lookups are awaited, again and
\* again one of them settles.
Fairness == SF_vars(Resumes) /\ WF_vars(Returns)

\* A process without ETHEREUM_RPC_URL that has not used the resolver.
InitLive == InitENS /\ ~envRpcUrl

SpecLive == InitLive /\ [][NextLive]_vars /\ Fairness

\* A component calling the four callbacks of its hook, one at a time.
NextHook ==
    \/ HookResolveAddress
    \/ HookResolveProfile
    \/ HookResolveMultiple
    \/ HookResolveMultipleProfiles
    \/ HookCallsResolver
    \/ HookResume
    \/ BatchCall
    \/ BatchSettle
    \/ \E c \in Callers :
          \/ NameReply(c)
          \/ FieldsReply(c)
          \/ ProfileResume(c)

SpecHook == InitLive /\ [][NextHook]_vars

\* The tools, in a process with or without credential.
NextTools ==
    \/ ExecuteOpenSeaTool
    \/ ClientSettled
    \/ CallSettled
    \/ ExecuteENSTool
    \/ ResolverSettled
    \/ ToolReturn

SpecTools == Init /\ [][NextTools]_vars

\* The component rendered with a growing text.
NextText == Render

SpecText == Init /\ [][NextText]_vars

\* ------------------------------------------------------------------ claims

\* The lines of a stream that are well-formed envelopes with the given id.
Matching(lines, id) == {i \in DOMAIN lines : lines[i].tag = "env" /\ lines[i].id = id}

\* The reply is a 2xx event stream.
IsStream(reply) == reply.status = "ok" /\ reply.ctype = "sse"

\* The reply is a 2xx single JSON document.
IsDoc(reply) == reply.status = "ok" /\ reply.ctype = "json"

\* The reply carries an error object in some well-formed envelope.
HasError(reply) ==
    reply.status = "ok" /\ \E i \in DOMAIN reply.lines : reply.lines[i].kind = "error"

\* t is at an observation point right after consuming the reply to its handshake.
AfterHandshakeReply(t) ==
    /\ task[t].pc \in {"hs_ok", "done"}
    /\ task[t].ninit = 1 /\ task[t].nreq = 0
    /\ task[t].reply # NoReply

\* A callTool() of t has just ended on the reply to its tools/call request.
CallEnded(t) ==
    task[t].pc = "done" /\ task[t].op = "callTool" /\ task[t].nreq = 1

\* A connect() of t, called directly or by listTools()/callTool(), has just raised.
ConnectRaised(t) ==
    /\ task[t].pc = "done"
    /\ \/ task[t].hs = "failed"
       \/ task[t].op = "connect" /\ task[t].out.status = "raised"

\* C1: listTools() never raises; when the handshake it performs fails, or the list
\* request fails, it returns the static catalog, which is non-empty.
C1_ListToolsNeverRaises ==
    \A t \in Tasks :
        (task[t].pc = "done" /\ task[t].op = "listTools") =>
            /\ task[t].out.status = "returned"
            /\ (task[t].hs = "failed"
                \/ task[t].reply.status \in {"fail", "http"}
                \/ HasError(task[t].reply))
               => (task[t].out.tools = getKnownTools /\ Len(task[t].out.tools) >= 1)

\* C2: a handshake reply that is an event stream with a well-formed data line
\* carrying an error object makes connect() raise an error containing the error's
\* message, and leaves the client not Connected, the session token cleared.
C2_StreamErrorFailsHandshake ==
    \A t \in Tasks :
        (AfterHandshakeReply(t) /\ IsStream(task[t].reply) /\ HasError(task[t].reply)) =>
            /\ task[t].out.status = "raised"
            /\ task[t].out.msg = ErrMsg
            /\ ~initialized
            /\ sessionId = NoToken

\* C3: when the reply to tools/call is an event stream in which no well-formed
\* data line has the id of the request, callTool raises and returns no result.
C3_NoMatchRaises ==
    \A t \in Tasks :
        (CallEnded(t) /\ IsStream(task[t].reply)
         /\ Matching(task[t].reply.lines, task[t].rid) = {}) =>
            task[t].out.status = "raised"

\* C3 witness: callTool raised on a two-line stream that holds a result, but for
\* another id, and a malformed line.
C3_Witness ==
    \E t \in Tasks :
        /\ CallEnded(t) /\ IsStream(task[t].reply)
        /\ task[t].reply.lines = <<Envelope(OtherId(task[t].rid), "result"), BadLine>>
        /\ task[t].out = Raised("nomatch", "")

\* C4: a callTool() that returns on a stream reply returns the result of an
\* envelope carrying the id it sent, and it does return that result whenever the
\* stream holds a result envelope with its id (and no error envelope with its id),
\* wherever it stands and whatever surrounds it, with other calls in flight.
C4_CorrelatedById ==
    \A t \in Tasks :
        (CallEnded(t) /\ IsStream(task[t].reply)) =>
            LET lines == task[t].reply.lines
                mine == Matching(lines, task[t].rid)
            IN /\ task[t].out.status = "returned" =>
                     /\ task[t].out.id = task[t].rid
                     /\ \E i \in mine : lines[i].kind = "result"
               /\ (mine # {} /\ \A i \in mine : lines[i].kind = "result") =>
                     task[t].out = Returned("result", task[t].rid, <<>>)

\* C4 witness: two calls in flight, the later request answered first; its result
\* stands second in the stream, behind a result for another id.
C4_Witness ==
    \E t, u \in Tasks :
        /\ CallEnded(t) /\ IsStream(task[t].reply)
        /\ task[t].reply.lines =
               <<Envelope(OtherId(task[t].rid), "result"), Envelope(task[t].rid, "result")>>
        /\ task[t].out = Returned("result", task[t].rid, <<>>)
        /\ task[u].pc = "ct_fetch" /\ task[u].rid < task[t].rid

\* C5: a reply to tools/call carrying an error object, as a single JSON document
\* or in the matched envelope of a stream (the first one with the id sent), makes
\* callTool raise.
C5_ErrorObjectRaises ==
    \A t \in Tasks :
        CallEnded(t) =>
            LET lines == task[t].reply.lines
                mine == Matching(lines, task[t].rid)
            IN /\ (IsDoc(task[t].reply) /\ lines[1].kind = "error") =>
                     task[t].out.status = "raised"
               /\ (IsStream(task[t].reply) /\ mine # {}
                   /\ lines[CHOOSE i \in mine : \A j \in mine : i <= j].kind = "error") =>
                     task[t].out.status = "raised"

\* C5 witness: callTool raised the protocol error of the envelope with its id,
\* which stands behind a result for another id.
C5_Witness ==
    \E t \in Tasks :
        /\ CallEnded(t) /\ IsStream(task[t].reply)
        /\ task[t].reply.lines =
               <<Envelope(OtherId(task[t].rid), "result"), Envelope(task[t].rid, "error")>>
        /\ task[t].out = Raised("protocol", ErrMsg)

\* C6: right after a connect() has raised, the connected flag is false and the
\* session token is absent, also when the failing reply delivered a token.
C6_FailedConnectTearsDown ==
    \A t \in Tasks : ConnectRaised(t) => (~initialized /\ sessionId = NoToken)

\* C6 witness: a connect() raised on the error object of a 2xx reply whose header
\* carried a token.
C6_Witness ==
    \E t \in Tasks :
        /\ ConnectRaised(t)
        /\ task[t].hdrTok \in Tokens
        /\ task[t].out = Raised("protocol", ErrMsg)

\* C7: one callTool() sends at most one initialize and at most one tools/call
\* request; started on a client that is not Connected, it sends tools/call only
\* after its own handshake succeeded, and none when the handshake failed.
C7_LazyReconnectNoRetry ==
    \A t \in Tasks :
        task[t].op = "callTool" =>
            /\ task[t].ninit <= 1 /\ task[t].nreq <= 1
            /\ (~task[t].wasConnected /\ task[t].nreq = 1) =>
                   (task[t].ninit = 1 /\ task[t].hs = "ok")
            /\ task[t].hs = "failed" => task[t].nreq = 0

\* C7 witness: a callTool() started on a client that was not Connected, after an
\* earlier handshake of the client, sent initialize, then tools/call, and returned.
C7_Witness ==
    \E t \in Tasks :
        /\ CallEnded(t) /\ ~task[t].wasConnected
        /\ task[t].hid = 2 /\ task[t].rid = 3
        /\ task[t].hs = "ok"
        /\ task[t].out.status = "returned"

\* C8: with no credential configured no request is ever sent, connect() and
\* callTool() raise the configuration error, listTools() returns the static
\* catalog, and the client never becomes Connected.
C8_DegradedMode ==
    ~configValid =>
        /\ nSent = 0 /\ lastReq = NoRequest
        /\ ~initialized /\ sessionId = NoToken
        /\ \A t \in Tasks :
              /\ task[t].pc \in {"idle", "done"}
              /\ task[t].pc = "done" =>
                    /\ task[t].op \in {"connect", "callTool"} =>
                          task[t].out = Raised("config", "")
                    /\ task[t].op = "listTools" =>
                          task[t].out = Returned("known", 0, getKnownTools)
                    /\ task[t].op = "disconnect" => task[t].out.status = "returned"

\* C8 witness: an unconfigured client has just raised the configuration error
\* from connect().
C8_Witness ==
    /\ ~configValid
    /\ \E t \in Tasks : task[t].pc = "done" /\ task[t].op = "connect"
                        /\ task[t].out = Raised("config", "")

C10_RequestIdsMonotonic ==
    [][/\ requestId' >= requestId
       /\ nSent' # nSent => (lastReq'.id > maxSentId /\ requestId' > lastReq'.id)
      ]_vars

\* C10 witness: the third request of a client that is not Connected is another
\* initialize, with id 3.
C10_Witness ==
    /\ lastReq = Request("initialize", 3, NoToken)
    /\ nSent = 3 /\ maxSentId = 3
    /\ ~initialized

\* t has just invoked operation op: the step leaves idle with a fresh invocation.
Invoked(t, op) == task[t].pc = "idle" /\ task'[t].pc # "idle" /\ task'[t].op = op

\* C11: disconnect() clears the session token and the connected flag, sends no
\* request, leaves the request-id counter alone and returns normally; on a client
\* that is already disconnected (never connected, or disconnected before) it
\* changes nothing, so calling it twice leaves the state of calling it once.
C11_DisconnectIdempotent ==
    [][\A t \in Tasks :
          Invoked(t, "disconnect") =>
              /\ sessionId' = NoToken /\ ~initialized'
              /\ UNCHANGED <<requestId, nSent, maxSentId, lastReq>>
              /\ task'[t].pc = "done"
              /\ task'[t].out = Returned("void", 0, <<>>)
              /\ (sessionId = NoToken /\ ~initialized) =>
                     UNCHANGED <<sessionId, initialized>>
      ]_vars

\* C11 witness: disconnect() has just returned on a client that was Connected and
\* whose last request carried a session token; the token and the flag are gone
\* and the counter stands where the last request left it.
C11_Witness ==
    \E t \in Tasks :
        /\ task[t].pc = "done" /\ task[t].op = "disconnect" /\ task[t].wasConnected
        /\ lastReq.method = "tools/call" /\ lastReq.hdr \in Tokens
        /\ sessionId = NoToken /\ ~initialized
        /\ requestId = lastReq.id + 1

\* C12: connect() invoked on a Connected client returns at once: no request is
\* sent and the token, the flag and the counter are unchanged; a listTools() or
\* callTool() invoked on a Connected client sends its own request, not initialize.
C12_ConnectWhenConnectedIsNoOp ==
    [][\A t \in Tasks :
          /\ (initialized /\ Invoked(t, "connect")) =>
                /\ UNCHANGED <<sessionId, initialized, requestId, nSent, maxSentId,
                               lastReq>>
                /\ task'[t].pc = "done"
                /\ task'[t].out = Returned("void", 0, <<>>)
          /\ (initialized /\ (Invoked(t, "listTools") \/ Invoked(t, "callTool"))) =>
                /\ task'[t].ninit = 0
                /\ nSent' # nSent => lastReq'.method # "initialize"
      ]_vars

\* C12 witness: a connect() invoked on a Connected client that holds a token has
\* returned, one request (the handshake that connected it) having been sent.
C12_Witness ==
    \E t \in Tasks :
        /\ task[t].pc = "done" /\ task[t].op = "connect" /\ task[t].wasConnected
        /\ task[t].ninit = 0
        /\ task[t].out = Returned("void", 0, <<>>)
        /\ initialized /\ sessionId \in Tokens
        /\ nSent = 1 /\ requestId = 2

\* C13: when the handshake reply is an event stream without an error line, the
\* connect() that read it ends with the client Connected and does not raise,
\* whether or not a line with the handshake's id carries a result; lines without
\* the data marker and malformed lines are skipped.
C13_StreamHandshakeConnects ==
    \A t \in Tasks :
        (AfterHandshakeReply(t) /\ IsStream(task[t].reply) /\ ~HasError(task[t].reply)) =>
            /\ initialized
            /\ task[t].hs = "ok"
            /\ task[t].out.status # "raised"

\* C13 witness: a connect() ended Connected on a stream that holds a line without
\* the data marker and a malformed line, and no line with the handshake's id.
C13_Witness ==
    \E t \in Tasks :
        /\ AfterHandshakeReply(t) /\ IsStream(task[t].reply)
        /\ task[t].reply.lines = <<NoDataLine, BadLine>>
        /\ task[t].op = "connect" /\ task[t].out = Returned("void", 0, <<>>)
        /\ initialized

\* A listTools() of t has just ended on the reply to its tools/list request.
ListEnded(t) ==
    task[t].pc = "done" /\ task[t].op = "listTools" /\ task[t].nreq = 1

\* The server answered request id successfully: a 2xx reply that is a JSON
\* document holding a result, or an event stream whose envelopes with that id
\* hold a result and no error.
AnsweredOk(reply, id) ==
    \/ IsDoc(reply) /\ reply.lines[1].kind = "result"
    \/ /\ IsStream(reply)
       /\ Matching(reply.lines, id) # {}
       /\ \A i \in Matching(reply.lines, id) : reply.lines[i].kind = "result"

\* C14: listTools() returns the remote catalog whenever the server answered the
\* list request successfully, as a JSON document or as an event stream; it
\* returns the static catalog only when the remote listing was not obtained.
C14_RemoteCatalogBothEncodings ==
    \A t \in Tasks :
        ListEnded(t) =>
            (AnsweredOk(task[t].reply, task[t].rid)
                <=> task[t].out = Returned("remote", task[t].out.id, RemoteTools))

\* C15: one client has at most one handshake in flight: an operation issued
\* while a handshake of the client is in flight sends no second initialize.
C15_SingleHandshake == Cardinality(Handshaking) <= 1

\* c has just invoked function op of the resolver.
Called(c, op) == CallOf(c).pc = "idle" /\ CallOf(c)'.pc # "idle" /\ CallOf(c)'.op = op

\* A call of function op by c has just settled.
Ended(c, op) == CallOf(c).pc = "done" /\ CallOf(c).op = op

\* The list a function tries in order.
ListOf(op) ==
    IF op = "resolveENSAvatar" THEN rpcEndpoints
    ELSE IF op = "resolveENSNameToAddress" THEN addressEndpoints
    ELSE nameTargets

\* The call of c asked every entry of its list and every lookup rejected.
EveryEndpointThrew(c) ==
    CallOf(c).asked = ListOf(CallOf(c).op) /\ CallOf(c).allThrew

\* C16: resolveAddressToENS and resolveENSProfile never raise; when every
\* endpoint and chain fails with a transport error, resolveAddressToENS returns
\* null, the record resolveENSProfile returns carries no error, and the map
\* resolveMultipleAddresses returns holds names and nulls only.
C16_ResolverNeverRaises ==
    /\ \A c \in Callers :
          /\ Ended(c, "resolveAddressToENS") =>
                /\ CallOf(c).out.status = "returned"
                /\ EveryEndpointThrew(c) => CallOf(c).out.value = NullValue
          /\ Ended(c, "resolveENSProfile") =>
                /\ CallOf(c).out.status = "returned"
                /\ CallOf(c).out.value.error = NullValue
    /\ (batch.pc = "done" /\ batch.op = "resolveMultipleAddresses") =>
          \A k \in DOMAIN batch.out : batch.out[k] \in Names \cup {NullValue}

\* C16 witness: a resolveAddressToENS call has returned null after every
\* endpoint and every chain rejected.
C16_Witness ==
    \E c \in Callers :
        /\ Ended(c, "resolveAddressToENS")
        /\ EveryEndpointThrew(c)
        /\ Len(CallOf(c).asked) = Len(rpcEndpoints) + Len(Kept(Tail(CHAINS)))
        /\ CallOf(c).out = Resolved(NullValue)

\* The functions that try a list of endpoints in order.
Fallbacks == {"resolveAddressToENS", "resolveENSAvatar", "resolveENSNameToAddress"}

\* The list holds no entry twice.
NoRepeat(list) == \A i, j \in DOMAIN list : list[i] = list[j] => i = j

\* C17: in address-to-name, name-to-address and avatar resolution the endpoints
\* asked are a prefix of the fixed list, none twice; a further endpoint is asked
\* only while no lookup has given a non-empty answer; the call returns the first
\* non-empty answer, and null only after the whole list was asked; every step
\* of a call ends it or asks exactly the next entry, so a call ends after at most
\* as many lookups as the list has entries.
C17_OrderedFirstSuccess ==
    [][\A c \in Callers :
          (/\ CallOf(c)'.pc # CallOf(c).pc \/ CallOf(c)'.asked # CallOf(c).asked
           /\ CallOf(c)'.op \in Fallbacks) =>
              \A rec \in {CallOf(c)'} : \A list \in {ListOf(rec.op)} :
                 /\ NoRepeat(list)
                 /\ Len(rec.asked) <= Len(list)
                 /\ rec.asked = SubSeq(list, 1, Len(rec.asked))
                 /\ rec.pc # "done" => (rec.hit = NullValue /\ rec.idx = Len(rec.asked))
                 /\ (rec.pc = "done" /\ rec.asked # <<>>) =>
                       /\ rec.out = Resolved(rec.hit)
                       /\ rec.hit = NullValue => rec.asked = list
                 /\ (CallOf(c).op = rec.op /\ CallOf(c).pc # "done") =>
                       \/ rec.pc = "done" /\ rec.asked = CallOf(c).asked
                       \/ rec.asked = Append(CallOf(c).asked, list[Len(CallOf(c).asked) + 1])
      ]_vars

\* C17 witness: resolveAddressToENS has returned the name the first other chain
\* gave, after every mainnet endpoint failed or answered empty.
C17_Witness ==
    \E c \in Callers :
        /\ Ended(c, "resolveAddressToENS")
        /\ CallOf(c).asked = SubSeq(nameTargets, 1, Len(rpcEndpoints) + 1)
        /\ CallOf(c).out.value \in Names
        /\ ~CallOf(c).allThrew

\* What a resolveAddressToENS call returned and what the name cache holds for
\* its key.
Outcome(c) ==
    LET k == toLowerCase(CallOf(c).addr) IN
    [returned |-> CallOf(c).out.value,
     cached |-> IF MapHas(ensCache, k) THEN ensCache[k] ELSE "absent"]

\* The outcome "no name is bound": null returned, null cached.
NoNameOutcome == [returned |-> NullValue, cached |-> NullValue]

\* C18: when the whole list was asked and no lookup gave a name, the outcome of
\* resolveAddressToENS is the no-name outcome if some endpoint answered, and is
\* different from it if every endpoint threw.
C18_OutageDistinctFromNoName ==
    \A c \in Callers :
        (Ended(c, "resolveAddressToENS") /\ CallOf(c).asked = nameTargets
         /\ CallOf(c).hit = NullValue) =>
            IF CallOf(c).allThrew
            THEN Outcome(c) # NoNameOutcome
            ELSE Outcome(c) = NoNameOutcome

\* C19: a resolveAddressToENS(a) (for an address a) or resolveENSProfile(a)
\* begun after a call of the same function for the same key has returned, with
\* no flush since, makes no lookup and returns what that call returned; every
\* key of either cache is in lower case.
C19_CacheHitsNoLookup ==
    /\ \A c \in Callers :
          LET k == toLowerCase(CallOf(c).addr) IN
          /\ (Ended(c, "resolveAddressToENS") /\ isAddress(CallOf(c).addr) /\ CallOf(c).late) =>
                /\ CallOf(c).asked = <<>>
                /\ nameSeen[k] = {CallOf(c).out.value}
          /\ (Ended(c, "resolveENSProfile") /\ CallOf(c).late) =>
                /\ CallOf(c).asked = <<>>
                /\ profileSeen[k] = {CallOf(c).out.value}
    /\ \A k \in DOMAIN ensCache \cup DOMAIN ensProfileCache : k = toLowerCase(k)

\* C20: clearENSCache() leaves both caches empty, and the first resolution of
\* an address begun after a flush that removed its key from the cache of the
\* function called is not answered from the cache: a name resolution makes a
\* network lookup, a profile resolution does not return the stored record.
C20_FlushForcesNewLookup ==
    [][\A c \in Callers :
          /\ Called(c, "clearENSCache") =>
                (ensCache' = EmptyMap /\ ensProfileCache' = EmptyMap)
          /\ (/\ Called(c, "resolveAddressToENS")
              /\ isAddress(CallOf(c)'.addr)
              /\ toLowerCase(CallOf(c)'.addr) \in flushed.names) =>
                CallOf(c)'.asked # <<>>
          /\ (/\ Called(c, "resolveENSProfile")
              /\ isAddress(CallOf(c)'.addr)
              /\ toLowerCase(CallOf(c)'.addr) \in flushed.profiles) =>
                CallOf(c)'.pc # "done"
      ]_vars

\* C21: as long as no flush removes it, a name stored in the name cache for a
\* key is not replaced by another name or by null.
C21_CachedNameNeverReplaced ==
    [][\A k \in DOMAIN ensCache :
          (ensCache[k] \in Names /\ k \in DOMAIN ensCache') => ensCache'[k] = ensCache[k]
      ]_vars

\* The profile cache holds a terminal record (loading = false) for key k.
TerminalCached(k) == MapHas(ensProfileCache, k) /\ ~ensProfileCache[k].loading

\* The step sends a lookup of the resolveENSProfile call of c.
ProfileLookupSent(c) ==
    /\ CallOf(c)' # CallOf(c)
    /\ CallOf(c)'.op = "resolveENSProfile"
    /\ CallOf(c)'.pc \in {"name", "fields"}
    /\ CallOf(c)'.asked # <<>>
    /\ CallOf(c)'.asked # CallOf(c).asked

\* C22: a terminal record in the profile cache is replaced by no other record
\* as long as no flush removes it, and while it is cached no resolveENSProfile
\* call sends a lookup for its key.
C22_TerminalRecordImmutable ==
    [][/\ \A k \in DOMAIN ensProfileCache :
             (TerminalCached(k) /\ k \in DOMAIN ensProfileCache') =>
                 ensProfileCache'[k] = ensProfileCache[k]
       /\ \A c \in Callers :
             ProfileLookupSent(c) => ~TerminalCached(toLowerCase(CallOf(c)'.addr))
      ]_vars

\* The resolveENSProfile call of c is suspended on a network lookup.
ProfileInFlight(c) ==
    CallOf(c).op = "resolveENSProfile" /\ CallOf(c).pc \in {"name", "fields"}

\* C23: a resolveENSProfile call that sends a lookup has stored the pending
\* record for its key first; a call begun while the pending record is cached
\* returns that record and sends no lookup; and two calls for one key are
\* suspended on lookups together only if a flush ran during one of them.
C23_InFlightDeduplication ==
    [][/\ \A c \in Callers :
             Called(c, "resolveENSProfile") =>
                 \A rec \in {CallOf(c)'} : \A k \in {toLowerCase(rec.addr)} :
                    IF MapHas(ensProfileCache, k)
                    THEN /\ rec.pc = "done"
                         /\ rec.asked = <<>>
                         /\ rec.out = ResolvedRecord(ensProfileCache[k])
                         /\ ensProfileCache' = ensProfileCache
                    ELSE /\ rec.pc # "done"
                         /\ MapHas(ensProfileCache', k)
                         /\ ensProfileCache'[k] = defaultProfile
                         /\ ensProfileCache'[k].loading
       /\ \A c, d \in Callers :
             (/\ c # d
              /\ ProfileInFlight(c)' /\ ProfileInFlight(d)'
              /\ toLowerCase(CallOf(c)'.addr) = toLowerCase(CallOf(d)'.addr)) =>
                 (CallOf(c)'.overFlush \/ CallOf(d)'.overFlush)
      ]_vars

\* C23 witness: a resolveENSProfile call has returned the pending record while
\* the call that stored it is suspended on a lookup for the same key.
C23_Witness ==
    \E c, d \in Callers :
        /\ c # d
        /\ ProfileInFlight(c) /\ ~CallOf(c).overFlush
        /\ Ended(d, "resolveENSProfile")
        /\ toLowerCase(CallOf(d).addr) = toLowerCase(CallOf(c).addr)
        /\ CallOf(d).out = ResolvedRecord(defaultProfile)
        /\ CallOf(d).asked = <<>>

\* The batch function op has just built, in this step, the map it returns.
BatchBuilt(op) == batch.op = op /\ batch.pc = "wait" /\ batch'.pc = "done"

\* No address after the i-th of the batch has the key of the i-th.
LastOfKey(i) ==
    \A j \in (i + 1)..Len(batch.addresses) :
        toLowerCase(batch.addresses[j]) # toLowerCase(batch.addresses[i])

\* C24: in the map resolveMultipleProfiles returns, an address for which every
\* endpoint threw has a record with loading false and an error, and every other
\* address has the record its own resolution returned.
C24_BatchIsolatesFailures ==
    [][BatchBuilt("resolveMultipleProfiles") =>
          \A i \in 1..Len(batch.addresses) :
              \A k \in {toLowerCase(batch.addresses[i])} :
                  LastOfKey(i) =>
                      /\ MapHas(batch'.out, k)
                      /\ IF EveryEndpointThrew(Slots[i])
                         THEN /\ ~batch'.out[k].loading
                              /\ batch'.out[k].error # NullValue
                         ELSE batch'.out[k] = CallOf(Slots[i]).out.value
      ]_vars

\* C25: the key set of the map resolveMultipleAddresses or
\* resolveMultipleProfiles returns is the set of the lowercased input addresses.
C25_OneEntryPerAddress ==
    batch.pc = "done" =>
        /\ DOMAIN batch.out = {Addr(batch.addresses[i].key, "lower") :
                                  i \in 1..Len(batch.addresses)}
        /\ \A k \in DOMAIN batch.out : k.casing = "lower"

\* C25 witness: resolveMultipleProfiles has returned a map of one entry for two
\* addresses that differ in letter casing only.
C25_Witness ==
    /\ batch.pc = "done"
    /\ batch.op = "resolveMultipleProfiles"
    /\ Len(batch.addresses) = 2
    /\ batch.addresses[1] # batch.addresses[2]
    /\ Cardinality(DOMAIN batch.out) = 1

\* The record fields filled from one lookup each, with the place of the lookup
\* in the array of settled lookups.
OwnLookup ==
    [avatar |-> 1, description |-> 2, email |-> 3, url |-> 4, discord |-> 9,
     telegram |-> 10, contentHash |-> 11]

\* The record fields filled from a primary and an alternate key, with the
\* places of the two lookups.
AliasLookups == [twitter |-> <<5, 6>>, github |-> <<7, 8>>]

\* The value a settled lookup contributes: its value, or null when it rejected.
Gave(r) == IF r.status = "rejected" THEN NullField ELSE r.value

\* C26: in the record resolveENSProfile builds from the lookups of one endpoint,
\* each field filled from one lookup holds that lookup's value when it was
\* fulfilled and null when it rejected, whatever the other lookups did; twitter
\* and github hold the primary key's value when that is fulfilled and not
\* empty, and what the alternate key's lookup gave otherwise.
C26_FieldsFromOwnLookups ==
    \A c \in Callers :
        (Ended(c, "resolveENSProfile") /\ CallOf(c).results # <<>>) =>
            \A r \in {CallOf(c).results} : \A p \in {CallOf(c).out.value} :
                /\ \A field \in DOMAIN OwnLookup :
                       /\ r[OwnLookup[field]].status = "fulfilled" =>
                              p[field] = r[OwnLookup[field]].value
                       /\ r[OwnLookup[field]].status = "rejected" =>
                              p[field] = NullField
                /\ \A field \in DOMAIN AliasLookups :
                       LET primary == r[AliasLookups[field][1]]
                           alternate == r[AliasLookups[field][2]]
                       IN IF primary.status = "fulfilled"
                             /\ primary.value \notin {NullField, EmptyText}
                          THEN p[field] = primary.value
                          ELSE p[field] = Gave(alternate)

\* C26 witness: a profile was built from an array in which the avatar lookup
\* rejected, the description lookup found its value, com.twitter found the
\* empty string and twitter a value, and com.github rejected while github
\* found a value.
C26_Witness ==
    \E c \in Callers :
        /\ Ended(c, "resolveENSProfile")
        /\ CallOf(c).results # <<>>
        /\ CallOf(c).results[1] = Rejected
        /\ CallOf(c).results[5] = Fulfilled(EmptyText)
        /\ CallOf(c).results[7] = Rejected
        /\ CallOf(c).out.value.avatar = NullField
        /\ CallOf(c).out.value.description = Val("description")
        /\ CallOf(c).out.value.twitter = Val("twitter")
        /\ CallOf(c).out.value.github = Val("github")

\* The settled lookup gave no value or an empty one.
GaveNothing(r) == Gave(r) \in {NullField, EmptyText}

\* In this step the call of c asks the next endpoint for the profile fields.
NextEndpointQueried(c) ==
    /\ CallOf(c).pc = "fields"
    /\ CallOf(c)'.pc = "fields"
    /\ CallOf(c)'.idx = CallOf(c).idx + 1

\* C27: resolveENSProfile asks the next endpoint for the profile fields only
\* when no lookup of the previous endpoint, contenthash included, gave a
\* non-empty value.
C27_NextEndpointOnlyAfterNoData ==
    [][\A c \in Callers :
          NextEndpointQueried(c) =>
              \A i \in DOMAIN FieldKeys : GaveNothing(CallOf(c)'.results[i])
      ]_vars

\* C28: the execute function of every OpenSea tool and of both ENS tools ends
\* by returning a payload, never by throwing, whatever the calls it awaited did.
C28_ToolsDeliverPayload ==
    tool.pc = "done" => tool.out.status = "returned"

\* C28 witness: callTool threw because the event stream held no envelope with
\* the id of the request, and the tool returned its failure payload.
C28_Witness ==
    /\ tool.pc = "done"
    /\ tool.err = Raised("nomatch", "")
    /\ tool.out.status = "returned"
    /\ tool.out.value.failed

\* C29: the payload an OpenSea tool returns on failure holds no text the server
\* sent (the body of an HTTP error reply, the message of an error object).
C29_PayloadWithoutServerText ==
    (tool.pc = "done" /\ tool.err.status = "raised") =>
        \A i \in DOMAIN tool.out.value.message :
            tool.out.value.message[i] \notin ErrorTexts

\* The string has the shape of an address: "0x" and forty hexadecimal digits.
AddressShaped(a) ==
    /\ Len(a) = AddressDigits + 2
    /\ a[1] = "0"
    /\ a[2] = "x"
    /\ \A j \in 3..Len(a) : a[j] \in HexDigits

\* The string stands in the text with no hexadecimal digit right behind it.
StandsWhole(a, text) ==
    \E i \in 1..Len(text) :
        /\ i + Len(a) - 1 <= Len(text)
        /\ SubSeq(text, i, i + Len(a) - 1) = a
        /\ (i + Len(a) <= Len(text)) => text[i + Len(a)] \notin HexDigits

\* C30: every address ENSEnhancedText extracts has the address shape and
\* stands in the text as "0x" followed by exactly forty hexadecimal digits, and
\* no address is extracted twice.
C30_OnlyWholeAddresses ==
    \A k \in DOMAIN view.addresses :
        /\ AddressShaped(view.addresses[k])
        /\ StandsWhole(view.addresses[k], view.text)
        /\ \A l \in DOMAIN view.addresses : view.addresses[l] = view.addresses[k] => l = k

\* C31: a callTool() that ends on a reply that is a single JSON document returns
\* only the result of a document whose id is the id of the request it sent, and
\* raises on a document with another id.
C31_DocumentMatchedById ==
    \A t \in Tasks :
        (CallEnded(t) /\ IsDoc(task[t].reply)) =>
            /\ task[t].out.status = "returned" => task[t].out.id = task[t].rid
            /\ (task[t].reply.lines[1].tag = "env"
                /\ task[t].reply.lines[1].id # task[t].rid) =>
                   task[t].out.status = "raised"

\* C32: a caller whose handshake was in flight when a disconnect() returned does
\* not bring the session back: no step of its handshake raises the connected flag
\* or stores a session token.  (Every other way to Connected is an operation
\* invoked after the disconnect().)
C32_DisconnectStaysDisconnected ==
    [][\A u \in hist.cut :
          task'[u] # task[u] =>
              /\ initialized' => initialized
              /\ sessionId' \in {sessionId, NoToken}
      ]_vars

\* C33: a handshake that fails while the client is Connected (through another
\* handshake that overlapped it and succeeded) leaves the client Connected and
\* the session token in place.
C33_SessionSurvivesOtherHandshake ==
    [][\A t \in Tasks :
          (task[t].pc \in {"hs_fetch", "hs_body"} /\ task'[t].hs = "failed"
           /\ initialized) =>
              (initialized' /\ sessionId' = sessionId)
      ]_vars

\* The request of t has just failed: its fetch rejected, the status was an HTTP
\* error, or the body held no result for it (an error object, no matching
\* envelope, a body that does not parse).
RequestFailed(t) ==
    /\ task[t].pc \in {"lt_fetch", "ct_fetch"}
    /\ task'[t].pc = "done"
    /\ \/ task'[t].out.status = "raised"
       \/ task'[t].op = "listTools" /\ task'[t].out.kind = "known"

\* C34: a tools/list or tools/call request that fails on a Connected client
\* leaves the connected flag and the session token as they were and sends
\* nothing, so the client stays Connected; a listTools() or callTool() invoked on
\* a Connected client sends its request without a handshake.
C34_FailedRequestKeepsSession ==
    [][\A t \in Tasks :
          /\ (RequestFailed(t) /\ initialized) =>
                /\ UNCHANGED <<sessionId, initialized, nSent, lastReq>>
                /\ initialized'
          /\ (initialized /\ (Invoked(t, "listTools") \/ Invoked(t, "callTool"))) =>
                /\ lastReq'.method \in {"tools/list", "tools/call"}
                /\ task'[t].ninit = 0
      ]_vars

\* C34 witness: a callTool() invoked on a Connected client has raised on an HTTP
\* error status; the client is Connected and holds its token.
C34_Witness ==
    \E t \in Tasks :
        /\ CallEnded(t) /\ task[t].wasConnected
        /\ task[t].out = Raised("http", "")
        /\ initialized /\ sessionId \in Tokens

\* No operation of the client is in flight.
NoneInFlight == \A t \in Tasks : task[t].pc \in {"idle", "done"}

\* C35: whenever no operation of the client is in flight, a stored session token
\* implies that the client is Connected.
C35_TokenImpliesConnected ==
    (NoneInFlight /\ sessionId # NoToken) => initialized

\* C35 witness: two handshakes overlapped; the one that failed has cleared the
\* token and the flag that the other had set, and nothing is in flight.
C35_Witness ==
    /\ NoneInFlight
    /\ sessionId = NoToken /\ ~initialized
    /\ nSent = 2 /\ lastReq.method = "initialize"
    /\ \E t \in Tasks : ConnectRaised(t) /\ task[t].hid = 1 /\ task[t].hdrTok \in Tokens

\* C36: a resolution that was in flight when clearENSCache() ran writes nothing
\* into the name cache or the profile cache when it goes on or completes, so
\* after a flush the caches hold only what resolutions begun after it wrote.
C36_FlushNotUndone ==
    [][\A c \in Callers :
          (/\ CallOf(c).overFlush
           /\ CallOf(c).pc \in {"name", "name_ret", "fields"}
           /\ \/ CallOf(c)'.pc # CallOf(c).pc
              \/ CallOf(c)'.asked # CallOf(c).asked) =>
              UNCHANGED <<ensCache, ensProfileCache>>
      ]_vars

\* C37: every record of the map resolveMultipleProfiles returns is terminal
\* (loading is false) and is the record the resolution of its address stored,
\* also when the list names an address twice or in two casings.
C37_BatchRecordsTerminal ==
    (batch.pc = "done" /\ batch.op = "resolveMultipleProfiles") =>
        \A k \in DOMAIN batch.out :
            /\ ~batch.out[k].loading
            /\ MapHas(ensProfileCache, k) => batch.out[k] = ensProfileCache[k]

\* The profile cache holds the pending placeholder for key k.
PendingAt(k) == MapHas(ensProfileCache, k) /\ ensProfileCache[k].loading

\* A resolveENSProfile call is in flight.
SomeProfileInFlight ==
    \E c \in Callers :
        CallOf(c).op = "resolveENSProfile" /\ CallOf(c).pc \in {"name", "name_ret", "fields"}

\* C38: when every lookup returns or fails, a pending placeholder in the profile
\* cache is eventually replaced by a terminal record or removed; and whenever no
\* resolveENSProfile is in flight the profile cache holds no pending record.
C38_NoPendingLeftBehind ==
    /\ [](~SomeProfileInFlight => \A k \in LowerKeys : ~PendingAt(k))
    /\ \A k \in {toLowerCase(a) : a \in Addresses} : PendingAt(k) ~> ~PendingAt(k)

\* C38 witness: a resolveENSProfile call whose placeholder a flush had removed
\* has completed and stored its terminal record; nothing is in flight.
C38_Witness ==
    /\ ~SomeProfileInFlight
    /\ \E c \in Callers :
          /\ Ended(c, "resolveENSProfile") /\ CallOf(c).overFlush
          /\ CallOf(c).asked # <<>>
          /\ MapHas(ensProfileCache, toLowerCase(CallOf(c).addr))
          /\ ensProfileCache[toLowerCase(CallOf(c).addr)] = CallOf(c).out.value
          /\ ~CallOf(c).out.value.loading

\* The state a callback of the hook tests for entries.
StateOf(op) ==
    IF op \in {"resolveAddress", "resolveMultiple"} THEN hook.resolutions ELSE hook.profiles

\* C39: a callback of the hook passes to the resolver no address that has an
\* entry in the state it tests (`resolutions` for resolveAddress and
\* resolveMultiple, `profiles` for resolveProfile and resolveMultipleProfiles),
\* and invoking a callback changes no entry the state holds.
C39_HookSkipsKnownAddresses ==
    [][hook.pc = "idle" =>
          /\ hook'.pc = "call" =>
                \A i \in DOMAIN hook'.addresses :
                    ~MapHas(StateOf(hook'.op), toLowerCase(hook'.addresses[i]))
          /\ \A k \in DOMAIN hook.resolutions : hook'.resolutions[k] = hook.resolutions[k]
          /\ \A k \in DOMAIN hook.profiles : hook'.profiles[k] = hook.profiles[k]
      ]_vars

====
